---- MODULE Spec2Model ----
(***************************************************************************)
(* A model of influxdb_toolkit: the v1 (InfluxQL) and v2 (Flux) clients,   *)
(* their shared base contract, the result normalizers and the multi-series *)
(* merge engine.  Every handler is a pure operator from its inputs and the *)
(* backend driver's behaviour to an effect (outcome, backend calls, result)*)
(* and one action applies it to the client.                                *)
(***************************************************************************)
EXTENDS Integers, Sequences, FiniteSets, TLC

\* ------------------------------------------------------------------ bounds
MaxPoints == 5   \* longest list of points written
MaxBatch == 2    \* largest batch_size
MaxRows == 2     \* most rows of a frame written
MaxRawRows == 2  \* most rows of a frame the backend answers with
MaxSeries == 2   \* most series in an InfluxQL JSON result
MaxNames == 2    \* most entries of a schema listing
MaxQueries == 2  \* most entries of a get_multiple_timeseries request

VARIABLES
  version,      \* InfluxDBClientBase.version: 1 or 2
  allow_write,  \* InfluxDBClientBase._allow_write
  bucket,       \* InfluxDBClientV2._bucket ("" stands for None / empty)
  op,           \* the client method called last
  args,         \* its arguments
  driver,       \* what the backend driver answered to each call it received
  calls,        \* the backend calls the method made, in order
  store,        \* the points the backend persisted during the method
  asked,        \* the client's own methods the call invoked in turn: the arguments of
                \* the get_timeseries calls of get_multiple_timeseries, the connect()
                \* and close() of a with block
  fetched,      \* the tables get_timeseries handed to get_multiple_timeseries
  connected,    \* InfluxDBClientBase.connected
  lifecycle,    \* the last of connect() / close() called, and how it ended
  made_from,    \* how the client was made: directly, by the factory, from a profile
  outcome,      \* how the method ended: returned, or the exception raised
  result        \* the value it returned

vars == <<version, allow_write, bucket, op, args, driver, calls, store, asked, fetched,
          connected, lifecycle, made_from, outcome, result>>

\* ------------------------------------------------------------------ values
None == <<>>                 \* Optional[...] is a sequence of length 0 or 1
Some(x) == <<x>>
IsNone(o) == Len(o) = 0
Val(o) == o[1]

Min(a, b) == IF a < b THEN a ELSE b

RECURSIVE Concat(_)
Concat(ss) == IF Len(ss) = 0 THEN <<>> ELSE ss[1] \o Concat(Tail(ss))

SeqsUpTo(S, n) == UNION {[1..k -> S] : k \in 0..n}

\* exceptions.py
Returned == [kind |-> "returned", msg |-> <<>>]
Raise(kind, msg) == [kind |-> kind, msg |-> msg]
NoResult == [kind |-> "none"]

\* what the backend driver may do with a call: answer, answer false, or raise
DriverMsgs == {<<"timeout">>, <<"bad request">>}
DriverOk == [r |-> "ok", msg |-> <<>>]
DriverFalse == [r |-> "false", msg |-> <<>>]
DriverRaise(m) == [r |-> "raise", msg |-> m]
DriverRaises == {DriverRaise(m) : m \in DriverMsgs}

Effect(o, c, s, r) ==
  [outcome |-> o, calls |-> c, store |-> s, result |-> r, asked |-> <<>>,
   fetched |-> <<>>]

\* ------------------------------------------------------------------ base.py
UnsafeMsg(name) == <<name, "blocked">>

\* a faulty variant: the guard lets every call through
_ensure_writes_allowed_open(aw) == TRUE

\* InfluxDBClientBase._ensure_writes_allowed: TRUE when the call may go on
_ensure_writes_allowed(aw) == aw

Unsafe(name) == Effect(Raise("UnsafeOperationError", UnsafeMsg(name)), <<>>, <<>>, NoResult)
Unsupported(name, why) ==
  Effect(Raise("UnsupportedOperationError", <<name, why>>), <<>>, <<>>, NoResult)
ValueError(m) == Effect(Raise("ValueError", m), <<>>, <<>>, NoResult)

\* a write/admin method of the base class: the guard, then "not implemented"
BaseOp(name, aw) ==
  IF ~_ensure_writes_allowed(aw) THEN Unsafe(name)
  ELSE Unsupported(name, "not implemented for this client")

\* a faulty variant: the admin mutation is carried out once writes are allowed
DisabledOp_enabled(name, aw) ==
  IF ~_ensure_writes_allowed(aw) THEN Unsafe(name)
  ELSE Effect(Returned, <<[api |-> "query", record |-> <<name>>]>>, <<>>,
              [kind |-> "bool", value |-> TRUE])

\* an admin mutation a client overrides: the guard, then the unconditional refusal
DisabledOp(name, aw) ==
  IF ~_ensure_writes_allowed(aw) THEN Unsafe(name)
  ELSE Unsupported(name, "is disabled until admin ops are approved")

\* ------------------------------------------------------------------ write_points
\* a point is a mapping; measurement "" stands for a point without that key
PointSet == {[v |-> 1, measurement |-> ""], [v |-> 2, measurement |-> "m2"]}
BatchSizes == {None} \cup {Some(k) : k \in (-1)..MaxBatch}

\* range(i, n, k) for k > 0
RECURSIVE RangeFrom(_, _, _)
RangeFrom(i, n, k) == IF i >= n THEN <<>> ELSE <<i>> \o RangeFrom(i + k, n, k)

\* points[i:j]
Slice(points, i, j) == SubSeq(points, i + 1, Min(j, Len(points)))

\* a faulty variant: the batch size is ignored: everything goes in one chunk
_chunk_points_single(points, batch_size) == <<points>>

\* a faulty variant: each slice stops one point early
_chunk_points_short(points, batch_size) ==
  IF IsNone(batch_size) \/ Val(batch_size) = 0 THEN <<points>>
  ELSE LET r == RangeFrom(0, Len(points), Val(batch_size))
       IN [j \in 1..Len(r) |-> Slice(points, r[j], r[j] + Val(batch_size) - 1)]

_chunk_points(points, batch_size) ==
  IF IsNone(batch_size) \/ Val(batch_size) = 0 THEN <<points>>
  ELSE LET r == RangeFrom(0, Len(points), Val(batch_size))
       IN [j \in 1..Len(r) |-> Slice(points, r[j], r[j] + Val(batch_size))]

\* for p in points: if "measurement" not in p: p["measurement"] = measurement
SetMeasurement(points, measurement) ==
  [i \in 1..Len(points) |->
     IF points[i].measurement = "" THEN [points[i] EXCEPT !.measurement = measurement]
     ELSE points[i]]

WriteCall(api, chunk) == [api |-> api, record |-> chunk]
WriteResult(success, n, batch_size, batches) ==
  [kind |-> "WriteResult", success |-> success, points |-> n,
   batch_size |-> batch_size, batches |-> batches]

LoopStart == [raised |-> None, batches |-> 0, ok |-> TRUE, calls |-> <<>>, store |-> <<>>]

\* a faulty variant: a chunk whose write raises is counted as failed and the loop goes on
RECURSIVE V1WriteLoop_goes_on(_, _, _, _)
V1WriteLoop_goes_on(chunks, resp, i, acc) ==
  IF i > Len(chunks) THEN acc
  ELSE V1WriteLoop_goes_on(chunks, resp, i + 1,
         [acc EXCEPT !.batches = @ + 1,
                     !.calls = Append(@, WriteCall("write_points", chunks[i])),
                     !.ok = @ /\ i <= Len(resp) /\ (resp[i].r = "ok"),
                     !.store = IF i <= Len(resp) /\ resp[i].r = "ok"
                               THEN @ \o chunks[i] ELSE @])

\* a faulty variant: a chunk whose write raises is sent a second time before giving up
RECURSIVE V1WriteLoop_retries(_, _, _, _)
V1WriteLoop_retries(chunks, resp, i, acc) ==
  IF i > Len(chunks) THEN acc
  ELSE LET sent == [acc EXCEPT !.batches = @ + 1,
                               !.calls = Append(@, WriteCall("write_points", chunks[i]))]
       IN IF resp[i].r = "raise"
          THEN [sent EXCEPT !.raised = Some(resp[i].msg),
                            !.calls = Append(@, WriteCall("write_points", chunks[i]))]
          ELSE V1WriteLoop_retries(chunks, resp, i + 1,
                 [sent EXCEPT !.ok = @ /\ (resp[i].r = "ok"),
                              !.store = IF resp[i].r = "ok" THEN @ \o chunks[i] ELSE @])

\* v1: for chunk in chunks: batches += 1; ok = bool(write_points(chunk)); ...
RECURSIVE V1WriteLoop(_, _, _, _)
V1WriteLoop(chunks, resp, i, acc) ==
  IF i > Len(chunks) THEN acc
  ELSE LET sent == [acc EXCEPT !.batches = @ + 1,
                               !.calls = Append(@, WriteCall("write_points", chunks[i]))]
       IN IF resp[i].r = "raise" THEN [sent EXCEPT !.raised = Some(resp[i].msg)]
          ELSE V1WriteLoop(chunks, resp, i + 1,
                 [sent EXCEPT !.ok = @ /\ (resp[i].r = "ok"),
                              !.store = IF resp[i].r = "ok" THEN @ \o chunks[i] ELSE @])

V1WritePoints(aw, points, measurement, batch_size, resp) ==
  IF ~_ensure_writes_allowed(aw) THEN Unsafe("write_points")
  ELSE IF ~IsNone(batch_size) /\ Val(batch_size) <= 0
  THEN ValueError(<<"batch_size must be greater than zero">>)
  ELSE LET pts == SetMeasurement(points, measurement)
           chunks == _chunk_points(pts, batch_size)
           run == V1WriteLoop(chunks, resp, 1, LoopStart)
       IN IF ~IsNone(run.raised)
          THEN Effect(Raise("InfluxDBQueryError", Val(run.raised)), run.calls, run.store, NoResult)
          ELSE Effect(Returned, run.calls, run.store,
                      WriteResult(run.ok, Len(pts), batch_size, run.batches))

\* v2: for chunk in chunks: write_api.write(bucket, org, record=chunk)
RECURSIVE V2WriteLoop(_, _, _, _)
V2WriteLoop(chunks, resp, i, acc) ==
  IF i > Len(chunks) THEN acc
  ELSE LET sent == [acc EXCEPT !.calls = Append(@, WriteCall("write_api.write", chunks[i]))]
       IN IF resp[i].r = "raise" THEN [sent EXCEPT !.raised = Some(resp[i].msg)]
          ELSE V2WriteLoop(chunks, resp, i + 1, [sent EXCEPT !.store = @ \o chunks[i]])

V2WritePoints(aw, bkt, points, measurement, batch_size, resp) ==
  IF ~_ensure_writes_allowed(aw) THEN Unsafe("write_points")
  ELSE IF bkt = "" THEN ValueError(<<"bucket is required for v2 writes">>)
  ELSE IF ~IsNone(batch_size) /\ Val(batch_size) <= 0
  THEN ValueError(<<"batch_size must be greater than zero">>)
  ELSE LET pts == SetMeasurement(points, measurement)
           chunks == _chunk_points(pts, batch_size)
           run == V2WriteLoop(chunks, resp, 1, LoopStart)
       IN IF ~IsNone(run.raised)
          THEN Effect(Raise("DriverError", Val(run.raised)), run.calls, run.store, NoResult)
          ELSE Effect(Returned, run.calls, run.store,
                      WriteResult(TRUE, Len(pts), batch_size, Len(chunks)))

\* the answers a driver can give to a write: the v2 write API returns nothing
WriteAnswers(v) == IF v = 1 THEN {DriverOk, DriverFalse} ELSE {DriverOk}

\* what the driver does over at most n calls: it answers each, or raises once
\* (no call follows a raise that the client lets through or re-raises)
DriverRuns(answers, n) ==
  [1..n -> answers]
    \cup {Append(p, x) : p \in UNION {[1..j -> answers] : j \in 0..(n - 1)},
                         x \in DriverRaises}

ClientWritePoints(v, aw, bkt, points, measurement, batch_size, resp) ==
  IF v = 1 THEN V1WritePoints(aw, points, measurement, batch_size, resp)
  ELSE V2WritePoints(aw, bkt, points, measurement, batch_size, resp)

\* the most backend calls a write of these points can make
NChunks(v, aw, bkt, points, batch_size) ==
  IF ~_ensure_writes_allowed(aw) \/ (v = 2 /\ bkt = "")
     \/ (~IsNone(batch_size) /\ Val(batch_size) <= 0) THEN 0
  ELSE Len(_chunk_points(points, batch_size))

\* ------------------------------------------------------------------ write_dataframe
\* the frame to write: whether it has the time column, and its rows' values
Frames == [has_time : BOOLEAN, rows : SeqsUpTo({1, 2}, MaxRows)]

\* for _, row in df.iterrows(): point = {"measurement": measurement, ...}
FramePoints(df, measurement) ==
  [i \in 1..Len(df.rows) |-> [v |-> df.rows[i], measurement |-> measurement]]

ClientWriteDataframe(v, aw, bkt, df, measurement, batch_size, resp) ==
  IF ~_ensure_writes_allowed(aw) THEN Unsafe("write_dataframe")
  ELSE IF v = 2 /\ bkt = "" THEN ValueError(<<"bucket is required for v2 writes">>)
  ELSE IF ~df.has_time THEN ValueError(<<"time_column must exist in dataframe">>)
  ELSE ClientWritePoints(v, aw, bkt, FramePoints(df, measurement), measurement,
                         batch_size, resp)

\* ------------------------------------------------------------------ delete_range
BoolResult(b) == [kind |-> "bool", value |-> b]

ClientDeleteRange(v, aw, bkt, measurement, resp) ==
  IF v = 1 THEN BaseOp("delete_range", aw)
  ELSE IF ~_ensure_writes_allowed(aw) THEN Unsafe("delete_range")
  ELSE IF bkt = "" THEN ValueError(<<"bucket is required for v2 delete">>)
  ELSE LET call == <<[api |-> "delete_api.delete", record |-> <<measurement>>]>>
       IN IF resp[1].r = "raise"
          THEN Effect(Raise("DriverError", resp[1].msg), call, <<>>, NoResult)
          ELSE Effect(Returned, call, <<>>, BoolResult(TRUE))

\* ------------------------------------------------------------------ tables
\* A cell is a number, NaN, a string or a timestamp.  A timestamp is a wall-clock
\* hour and what is attached to it: "naive" (nothing), "UTC", a fixed offset or a zone.
Num(v) == [k |-> "num", v |-> v]
NaN == [k |-> "nan"]
Str(x) == [k |-> "str", s |-> x]
Time(wall, tz) == [k |-> "time", wall |-> wall, tz |-> tz]

\* a column name is a sequence of the pieces it was formatted from
TimeCol == <<"time">>
Col(x) == <<x>>

\* pd.DataFrame: the columns in order and the rows, each aligned with the columns
Frame(cols, rows) == [cols |-> cols, rows |-> rows]
EmptyFrame == Frame(<<>>, <<>>)
\* DataFrame.empty: any axis of length 0
IsEmpty(df) == Len(df.cols) = 0 \/ Len(df.rows) = 0

Range(f) == {f[i] : i \in 1..Len(f)}
HasCol(df, c) == c \in Range(df.cols)
ColIndex(df, c) == CHOOSE i \in 1..Len(df.cols) : df.cols[i] = c /\ \A j \in 1..(i - 1) : df.cols[j] # c
Column(df, c) == [r \in 1..Len(df.rows) |-> df.rows[r][ColIndex(df, c)]]

\* ------------------------------------------------------------------ time zones
DstStart == 15      \* the UTC hour at which Europe/Zurich goes from +1 to +2
Timezones == {"UTC", "utc", "", "Europe/Zurich", "Asia/Tokyo"}

\* str.upper() on the zone names in use
Upper(tz) == CASE tz = "utc" -> "UTC"
               [] tz = "Europe/Zurich" -> "EUROPE/ZURICH"
               [] tz = "Asia/Tokyo" -> "ASIA/TOKYO"
               [] OTHER -> tz

\* the offset from UTC, in hours, of what a parsed timestamp carries
FixedOffset(tz) == CASE tz = "+01:00" -> 1 [] OTHER -> 0
\* the offset of a zone at a UTC instant
ZoneOffset(zone, instant) ==
  CASE zone = "Europe/Zurich" -> (IF instant < DstStart THEN 1 ELSE 2)
    [] zone = "Asia/Tokyo" -> 9
    [] OTHER -> 0

\* pd.to_datetime(x, utc=True): the instant, as a UTC-aware timestamp (a naive or
\* unzoned input is taken as UTC)
to_datetime_utc(c) == IF c.k = "time" THEN Time(c.wall - FixedOffset(c.tz), "UTC") ELSE c
\* Series.dt.tz_convert(zone) on UTC-aware timestamps
tz_convert(c, zone) == IF c.k = "time" THEN Time(c.wall + ZoneOffset(zone, c.wall), zone) ELSE c
\* Series.dt.tz_localize(None)
tz_localize_none(c) == IF c.k = "time" THEN Time(c.wall, "naive") ELSE c

\* a faulty variant: the zone is stripped for every requested zone, UTC included
ConvertCell_always_naive(c, timezone) ==
  IF timezone # "" /\ Upper(timezone) # "UTC"
  THEN tz_localize_none(tz_convert(to_datetime_utc(c), timezone))
  ELSE tz_localize_none(to_datetime_utc(c))

\* df["time"] = pd.to_datetime(df["time"], utc=True)
\* if timezone and timezone.upper() != "UTC": tz_convert(timezone), tz_localize(None)
ConvertCell(c, timezone) ==
  IF timezone # "" /\ Upper(timezone) # "UTC"
  THEN tz_localize_none(tz_convert(to_datetime_utc(c), timezone))
  ELSE to_datetime_utc(c)

\* a faulty variant: the columns are left in the order the backend gave
_move_time_first_noop(df) == df

_move_time_first(df) ==
  IF Len(df.cols) > 0 /\ df.cols[1] # TimeCol /\ HasCol(df, TimeCol)
  THEN LET t == ColIndex(df, TimeCol)
           order == <<t>> \o SelectSeq([i \in 1..Len(df.cols) |-> i],
                                       LAMBDA i : df.cols[i] # TimeCol)
       IN Frame([i \in 1..Len(order) |-> df.cols[order[i]]],
                [r \in 1..Len(df.rows) |-> [i \in 1..Len(order) |-> df.rows[r][order[i]]]])
  ELSE df

\* if "time" in df.columns: convert the column, then _move_time_first
NormalizeTime(df, timezone) ==
  IF HasCol(df, TimeCol)
  THEN LET t == ColIndex(df, TimeCol)
       IN _move_time_first(
            Frame(df.cols,
                  [r \in 1..Len(df.rows) |->
                     [i \in 1..Len(df.cols) |->
                        IF i = t THEN ConvertCell(df.rows[r][i], timezone)
                        ELSE df.rows[r][i]]]))
  ELSE df

\* ------------------------------------------------------------------ sorting
\* the strings the model compares, in Python's str order
StrOrder == <<"1", "2", "_measurement", "_start", "_stop", "a", "b", "humidity", "m1", "m2", "s1",
              "sensor", "temperature", "value">>
StrRank(x) == CHOOSE i \in 1..Len(StrOrder) : StrOrder[i] = x

RECURSIVE SortInts(_)
SortInts(S) ==
  IF S = {} THEN <<>>
  ELSE LET m == CHOOSE x \in S : \A y \in S : x <= y IN <<m>> \o SortInts(S \ {m})

\* sorted(S) for a set of strings
SortStrs(S) ==
  LET ranks == SortInts({StrRank(x) : x \in S}) IN [i \in 1..Len(ranks) |-> StrOrder[ranks[i]]]

\* the distinct elements of a sequence, in order of first appearance
RECURSIVE Distinct(_)
Distinct(f) ==
  IF Len(f) = 0 THEN <<>>
  ELSE LET rest == Distinct(SubSeq(f, 1, Len(f) - 1))
       IN IF f[Len(f)] \in Range(rest) THEN rest ELSE Append(rest, f[Len(f)])

\* ------------------------------------------------------------------ v1 queries
FrameResult(df) == [kind |-> "frame", df |-> df]
ListResult(xs) == [kind |-> "list", value |-> xs]
DriverData(x) == [r |-> "ok", msg |-> <<>>, data |-> x]
QueryCall(api, text) == [api |-> api, record |-> text]

\* a faulty variant: empty names are kept
FieldsList_all(fields) == fields

\* fields_list = [f for f in list(fields) if f]
FieldsList(fields) == SelectSeq(fields, LAMBDA f : f # "")

\* ------------------------------------------------------------------ v1/query_builder.py
\* a query text is the sequence of its clauses, a clause the sequence of its parts
\* with the keyword first

\* an optional string that is neither None nor ""
Given(o) == ~IsNone(o) /\ Val(o) # ""

\* a naive datetime: isoformat() + "Z"
_fmt_time(value) == <<value, "Z">>

_field_exprs(fields, aggregation) ==
  [i \in 1..Len(fields) |->
     IF ~Given(aggregation) THEN <<fields[i]>> ELSE <<Val(aggregation), fields[i]>>]

\* a faulty variant: GROUP BY for every interval, aggregation or not
build_influxql_query_by_interval(measurement, fields, start, end, tags, interval, aggregation, timezone) ==
  <<<<"SELECT", _field_exprs(fields, aggregation)>>, <<"FROM", measurement>>,
    <<"WHERE", _fmt_time(start), _fmt_time(end), tags>>>>
    \o (IF Given(interval) THEN <<<<"GROUP BY time", Val(interval)>>>> ELSE <<>>)
    \o (IF timezone # "" THEN <<<<"TZ", timezone>>>> ELSE <<>>)

build_influxql_query(measurement, fields, start, end, tags, interval, aggregation, timezone) ==
  <<<<"SELECT", _field_exprs(fields, aggregation)>>, <<"FROM", measurement>>,
    <<"WHERE", _fmt_time(start), _fmt_time(end), tags>>>>
    \o (IF Given(aggregation) /\ Given(interval)
        THEN <<<<"GROUP BY time", Val(interval)>>>> ELSE <<>>)
    \o (IF timezone # "" THEN <<<<"TZ", timezone>>>> ELSE <<>>)

\* the text get_timeseries sends
InfluxQLText(req) ==
  build_influxql_query(req.measurement, FieldsList(req.fields), req.start, req.end,
                       req.tags, req.interval, req.aggregation, req.timezone)
RawText(query, timezone) == IF timezone # "" THEN <<query, "tz", timezone>> ELSE <<query>>

V1GetTimeseries(req, resp) ==
  IF FieldsList(req.fields) = <<>>
  THEN ValueError(<<"fields must contain at least one field name">>)
  ELSE LET call == <<QueryCall("query", InfluxQLText(req))>>
       IN IF resp[1].r = "raise"
          THEN Effect(Raise("InfluxDBQueryError", resp[1].msg), call, <<>>, NoResult)
          ELSE LET df == resp[1].data
               IN IF IsEmpty(df) THEN Effect(Returned, call, <<>>, FrameResult(df))
                  ELSE Effect(Returned, call, <<>>, FrameResult(NormalizeTime(df, req.timezone)))

V1QueryRaw(query, timezone, resp) ==
  LET call == <<QueryCall("query", RawText(query, timezone))>>
  IN IF resp[1].r = "raise"
     THEN Effect(Raise("InfluxDBQueryError", resp[1].msg), call, <<>>, NoResult)
     ELSE Effect(Returned, call, <<>>, FrameResult(NormalizeTime(resp[1].data, timezone)))

\* ------------------------------------------------------------------ v2 normalizers
\* pd.concat(frames, ignore_index=True): the union of the columns in order of first
\* appearance, the rows one frame after the other, NaN where a frame lacks a column
ConcatFrames(frames) ==
  LET cols == Distinct(Concat([i \in 1..Len(frames) |-> frames[i].cols]))
      Widen(df) == [r \in 1..Len(df.rows) |->
                      [i \in 1..Len(cols) |->
                         IF HasCol(df, cols[i]) THEN df.rows[r][ColIndex(df, cols[i])]
                         ELSE NaN]]
  IN Frame(cols, Concat([i \in 1..Len(frames) |-> Widen(frames[i])]))

\* a faulty variant: the last value seen for a (time, field) pair wins
PivotCell_last(df, t, f) ==
  LET it == ColIndex(df, Col("_time"))
      ifld == ColIndex(df, Col("_field"))
      iv == ColIndex(df, Col("_value"))
      hits == SelectSeq(df.rows, LAMBDA row : row[it] = Time(t, "UTC") /\ row[ifld] = Str(f)
                                              /\ row[iv] # NaN)
  IN IF Len(hits) = 0 THEN NaN ELSE hits[Len(hits)][iv]

\* aggfunc="first": the first non-null _value of the rows of that time and field
PivotCell(df, t, f) ==
  LET it == ColIndex(df, Col("_time"))
      ifld == ColIndex(df, Col("_field"))
      iv == ColIndex(df, Col("_value"))
      hits == SelectSeq(df.rows, LAMBDA row : row[it] = Time(t, "UTC") /\ row[ifld] = Str(f)
                                              /\ row[iv] # NaN)
  IN IF Len(hits) = 0 THEN NaN ELSE hits[1][iv]

\* df.pivot_table(index="_time", columns="_field", values="_value",
\*                aggfunc="first").reset_index(); rows without a time or a field
\* belong to no group, and a group whose values are all null is dropped (dropna)
PivotTable(df) ==
  LET keyed == SelectSeq(df.rows,
                         LAMBDA row : row[ColIndex(df, Col("_time"))].k = "time"
                                      /\ row[ColIndex(df, Col("_field"))].k = "str"
                                      /\ row[ColIndex(df, Col("_value"))] # NaN)
      times == SortInts({row[ColIndex(df, Col("_time"))].wall : row \in Range(keyed)})
      fields == SortStrs({row[ColIndex(df, Col("_field"))].s : row \in Range(keyed)})
  IN Frame(<<Col("_time")>> \o [j \in 1..Len(fields) |-> Col(fields[j])],
           [r \in 1..Len(times) |->
              <<Time(times[r], "UTC")>>
                \o [j \in 1..Len(fields) |-> PivotCell(df, times[r], fields[j])]])

RenameCol(df, old, new) ==
  Frame([i \in 1..Len(df.cols) |-> IF df.cols[i] = old THEN new ELSE df.cols[i]], df.rows)

\* what the Flux query API handed back: one frame, a list of frames, or another object
FluxData(shape, frames) == [shape |-> shape, frames |-> frames]

\* _normalize_flux_dataframe: the frame, or the exception pandas raises
_normalize_flux_dataframe(data, timezone, pivot) ==
  IF data.shape = "list" /\ Len(data.frames) = 0 THEN [err |-> None, df |-> EmptyFrame]
  ELSE IF data.shape = "other" THEN [err |-> None, df |-> EmptyFrame]
  ELSE LET df == IF data.shape = "list" THEN ConcatFrames(data.frames) ELSE data.frames[1]
       IN IF IsEmpty(df) THEN [err |-> None, df |-> df]
          ELSE IF pivot /\ HasCol(df, Col("_field")) /\ HasCol(df, Col("_value"))
                  /\ ~HasCol(df, Col("_time"))
          THEN [err |-> Some("KeyError"), df |-> EmptyFrame]
          ELSE LET wide == IF pivot /\ HasCol(df, Col("_field")) /\ HasCol(df, Col("_value"))
                           THEN PivotTable(df) ELSE df
                   named == IF HasCol(wide, Col("_time"))
                            THEN RenameCol(wide, Col("_time"), TimeCol) ELSE wide
               IN [err |-> None, df |-> NormalizeTime(named, timezone)]

NormalizedEffect(call, n) ==
  IF IsNone(n.err) THEN Effect(Returned, call, <<>>, FrameResult(n.df))
  ELSE Effect(Raise(Val(n.err), <<"lookup failed">>), call, <<>>, NoResult)

\* ------------------------------------------------------------------ v2/query_builder.py
fmt_time(value) == <<value, "Z">>

build_flux_query(bkt, measurement, fields, start, end, tags, interval, aggregation) ==
  <<<<"from", bkt>>, <<"range", fmt_time(start), fmt_time(end)>>,
    <<"filter measurement", measurement>>, <<"filter field", fields>>>>
    \o [i \in 1..Len(tags) |-> <<"filter tag", tags[i][1], tags[i][2]>>]
    \o (IF Given(aggregation) /\ Given(interval)
        THEN <<<<"aggregateWindow", Val(interval), Val(aggregation), "createEmpty: false">>>>
        ELSE <<>>)
    \o <<<<"yield", "result">>>>

\* the text get_timeseries sends
FluxText(bkt, req) ==
  build_flux_query(bkt, req.measurement, FieldsList(req.fields), req.start, req.end,
                   req.tags, req.interval, req.aggregation)

V2GetTimeseries(bkt, req, resp) ==
  IF bkt = "" THEN ValueError(<<"bucket is required for v2 queries">>)
  ELSE IF FieldsList(req.fields) = <<>>
  THEN ValueError(<<"fields must contain at least one field name">>)
  ELSE LET call == <<QueryCall("query_api.query_data_frame", FluxText(bkt, req))>>
       IN IF resp[1].r = "raise"
          THEN Effect(Raise("InfluxDBQueryError", resp[1].msg), call, <<>>, NoResult)
          ELSE NormalizedEffect(call, _normalize_flux_dataframe(resp[1].data, req.timezone, TRUE))

\* ------------------------------------------------------------------ v2 query_raw
\* a query text is the sequence of its characters
LowerCase == <<"a", "c", "d", "e", "f", "g", "h", "k", "l", "m", "n", "o", "p", "r", "s",
               "t", "v", "w", "y">>
UpperCase == <<"A", "C", "D", "E", "F", "G", "H", "K", "L", "M", "N", "O", "P", "R", "S",
               "T", "V", "W", "Y">>
UpperChar(c) ==
  IF c \in Range(LowerCase)
  THEN UpperCase[CHOOSE i \in 1..Len(LowerCase) : LowerCase[i] = c] ELSE c
UpperText(q) == [i \in 1..Len(q) |-> UpperChar(q[i])]
Whitespace == {" ", "\n", "\t"}

RECURSIVE LStrip(_)
LStrip(q) == IF Len(q) > 0 /\ q[1] \in Whitespace THEN LStrip(Tail(q)) ELSE q
RECURSIVE RStrip(_)
RStrip(q) ==
  IF Len(q) > 0 /\ q[Len(q)] \in Whitespace THEN RStrip(SubSeq(q, 1, Len(q) - 1)) ELSE q
Strip(q) == RStrip(LStrip(q))
StartsWith(q, w) == Len(q) >= Len(w) /\ SubSeq(q, 1, Len(w)) = w

InfluxQLKeywords ==
  {<<"S", "E", "L", "E", "C", "T">>, <<"S", "H", "O", "W">>,
   <<"C", "R", "E", "A", "T", "E">>, <<"D", "R", "O", "P">>,
   <<"D", "E", "L", "E", "T", "E">>, <<"A", "L", "T", "E", "R">>,
   <<"G", "R", "A", "N", "T">>, <<"R", "E", "V", "O", "K", "E">>}

\* a faulty variant: the keyword is looked for as written, without str.upper()
_is_influxql_as_written(query) ==
  \E w \in InfluxQLKeywords : StartsWith(Strip(query), w)

_is_influxql(query) ==
  LET q == UpperText(Strip(query)) IN \E w \in InfluxQLKeywords : StartsWith(q, w)

\* a mapping with its keys in insertion order: d[k] = v
DictSet(d, k, v) ==
  IF \E i \in 1..Len(d) : d[i][1] = k
  THEN [i \in 1..Len(d) |-> IF d[i][1] = k THEN <<k, v>> ELSE d[i]]
  ELSE Append(d, <<k, v>>)
RECURSIVE DictUpdate(_, _)
DictUpdate(d, items) ==
  IF Len(items) = 0 THEN d
  ELSE DictUpdate(DictSet(d, items[1][1], items[1][2]), Tail(items))
DictKeys(d) == [i \in 1..Len(d) |-> d[i][1]]
DictHas(d, k) == \E i \in 1..Len(d) : d[i][1] = k
DictGet(d, k) == d[CHOOSE i \in 1..Len(d) : d[i][1] = k][2]

\* pd.DataFrame(rows) for a list of mappings
FrameOfDicts(rows) ==
  LET cols == Distinct(Concat([r \in 1..Len(rows) |-> DictKeys(rows[r])]))
  IN Frame(cols, [r \in 1..Len(rows) |->
                    [i \in 1..Len(cols) |->
                       IF DictHas(rows[r], cols[i]) THEN DictGet(rows[r], cols[i]) ELSE NaN]])

\* row = dict(zip(columns, values)); row.update(tags)
SeriesRows(series) ==
  [r \in 1..Len(series.values) |->
     DictUpdate(<<>>,
       [i \in 1..Min(Len(series.columns), Len(series.values[r])) |->
          <<series.columns[i], series.values[r][i]>>]
       \o [i \in 1..Len(series.tags) |-> <<Col(series.tags[i][1]), Str(series.tags[i][2])>>])]

\* _influxql_result_to_df: the frame, or the exception the lookup raises
_influxql_result_to_df(body, timezone) ==
  LET results == IF body.has_results THEN body.results
                 ELSE <<[has_error |-> FALSE, error |-> <<>>, series |-> <<>>]>>
  IN IF Len(results) = 0 THEN [err |-> Some("IndexError"), df |-> EmptyFrame]
     ELSE LET series_list == results[1].series
              rows == Concat([i \in 1..Len(series_list) |-> SeriesRows(series_list[i])])
          IN [err |-> None, df |-> NormalizeTime(FrameOfDicts(rows), timezone)]

_execute_influxql_compat(bkt, query, timezone, resp) ==
  IF bkt = "" THEN ValueError(<<"bucket is required for InfluxQL compatibility queries">>)
  ELSE LET call == <<QueryCall("requests.get", RawText(query, timezone))>>
           http == resp[1].data
       IN IF resp[1].r = "raise"
          THEN Effect(Raise("RequestException", resp[1].msg), call, <<>>, NoResult)
          ELSE IF http.status_code # "200"
          THEN Effect(Raise("InfluxDBQueryError",
                            <<"InfluxQL query failed:", http.status_code, http.text>>),
                      call, <<>>, NoResult)
          ELSE IF ~http.body.json
          THEN Effect(Raise("JSONDecodeError", <<http.text>>), call, <<>>, NoResult)
          ELSE IF http.body.has_results /\ Len(http.body.results) > 0
                  /\ http.body.results[1].has_error
          THEN Effect(Raise("InfluxDBQueryError", http.body.results[1].error),
                      call, <<>>, NoResult)
          ELSE NormalizedEffect(call, _influxql_result_to_df(http.body, timezone))

V2QueryRaw(bkt, query, timezone, resp) ==
  IF _is_influxql(query) THEN _execute_influxql_compat(bkt, query, timezone, resp)
  ELSE LET call == <<QueryCall("query_api.query_data_frame", <<query>>)>>
       IN IF resp[1].r = "raise"
          THEN Effect(Raise("InfluxDBQueryError", resp[1].msg), call, <<>>, NoResult)
          ELSE NormalizedEffect(call, _normalize_flux_dataframe(resp[1].data, timezone, TRUE))

\* ------------------------------------------------------------------ schema listings
V1Database == "db"    \* InfluxDBClientV1._database

\* [p.get(key) for p in points if key in p]
NamesOf(points, key) ==
  LET has == SelectSeq(points, LAMBDA p : DictHas(p, key))
  IN [i \in 1..Len(has) |-> DictGet(has[i], key)]

\* one backend call; the driver's exception is not caught
V1Listing(api, text, key, resp) ==
  LET call == <<QueryCall(api, text)>>
  IN IF resp[1].r = "raise"
     THEN Effect(Raise("DriverError", resp[1].msg), call, <<>>, NoResult)
     ELSE Effect(Returned, call, <<>>, ListResult(NamesOf(resp[1].data, key)))

V1ListMeasurements(database, resp) ==
  IF database # "" /\ database # V1Database
  THEN V1Listing("query", <<"SHOW MEASUREMENTS ON", database>>, "name", resp)
  ELSE V1Listing("get_list_measurements", <<>>, "name", resp)

V1GetTags(measurement, database, resp) ==
  V1Listing("query", <<"SHOW TAG KEYS FROM", measurement, database>>, "tagKey", resp)

V1GetTagValues(measurement, tag_key, database, resp) ==
  V1Listing("query", <<"SHOW TAG VALUES FROM", measurement, tag_key, database>>, "value", resp)

\* {p.get("fieldKey"): p.get("fieldType") for p in points if "fieldKey" in p}
V1GetFields(measurement, database, resp) ==
  LET call == <<QueryCall("query", <<"SHOW FIELD KEYS FROM", measurement, database>>)>>
      has == SelectSeq(resp[1].data, LAMBDA p : DictHas(p, "fieldKey"))
  IN IF resp[1].r = "raise"
     THEN Effect(Raise("DriverError", resp[1].msg), call, <<>>, NoResult)
     ELSE Effect(Returned, call, <<>>,
                 [kind |-> "dict",
                  value |-> DictUpdate(<<>>,
                              [i \in 1..Len(has) |->
                                 <<DictGet(has[i], "fieldKey"),
                                   IF DictHas(has[i], "fieldType")
                                   THEN DictGet(has[i], "fieldType") ELSE "None">>])])

V1ListDatabases(resp) == V1Listing("get_list_database", <<>>, "name", resp)

\* sorted({v for v in df.get("_value", []) if isinstance(v, str)})
SortedValues(df) ==
  IF HasCol(df, Col("_value"))
  THEN SortStrs({c.s : c \in {x \in Range(Column(df, Col("_value"))) : x.k = "str"}})
  ELSE <<>>

\* the schema.* Flux queries of the v2 client, by what they return from the frame
V2Listing(bkt, database, text, Result(_), resp) ==
  IF (IF database # "" THEN database ELSE bkt) = ""
  THEN ValueError(<<"bucket is required for v2 queries">>)
  ELSE LET call == <<QueryCall("query_api.query_data_frame",
                               <<text, IF database # "" THEN database ELSE bkt>>)>>
       IN IF resp[1].r = "raise"
          THEN Effect(Raise("DriverError", resp[1].msg), call, <<>>, NoResult)
          ELSE Effect(Returned, call, <<>>,
                      Result(SortedValues(
                               _normalize_flux_dataframe(resp[1].data, "UTC", FALSE).df)))

V2ListMeasurements(bkt, database, resp) ==
  V2Listing(bkt, database, "schema.measurements", LAMBDA xs : ListResult(xs), resp)

V2GetTags(bkt, measurement, database, resp) ==
  V2Listing(bkt, database, "schema.tagKeys",
            LAMBDA xs : ListResult(SelectSeq(xs, LAMBDA x :
                                     x \notin {"_start", "_stop", "_measurement"})),
            resp)

V2GetTagValues(bkt, measurement, tag_key, database, resp) ==
  V2Listing(bkt, database, "schema.tagValues", LAMBDA xs : ListResult(xs), resp)

V2GetFields(bkt, measurement, database, resp) ==
  V2Listing(bkt, database, "schema.fieldKeys",
            LAMBDA xs : [kind |-> "dict", value |-> [i \in 1..Len(xs) |-> <<xs[i], "">>]],
            resp)

\* [b.name for b in self._client.buckets_api().find_buckets().buckets]
V2ListBuckets(resp) ==
  LET call == <<QueryCall("buckets_api.find_buckets", <<>>)>>
  IN IF resp[1].r = "raise"
     THEN Effect(Raise("DriverError", resp[1].msg), call, <<>>, NoResult)
     ELSE Effect(Returned, call, <<>>, ListResult(resp[1].data))

\* the base class: the listing of the other version
BaseListing(name) ==
  Unsupported(name, IF name = "list_databases" THEN "is only supported for InfluxDB v1"
                    ELSE "is only supported for InfluxDB v2")

\* ------------------------------------------------------------------ backend answers
\* timestamps as a backend gives them: UTC ("...Z"), with an offset, or unzoned
RawTimes == {Time(10, "UTC"), Time(21, "+01:00"), Time(20, "naive")}

\* result.get_points() of the v1 driver, as the frame pd.DataFrame makes of it
RawFramesV1 ==
  {EmptyFrame}
    \cup {Frame(<<TimeCol, Col("value")>>, rows) :
            rows \in [1..1 -> {<<t, Num(v)>> : t \in RawTimes, v \in {1, 2}}]}
    \cup {Frame(<<Col("value"), TimeCol>>, rows) :
            rows \in UNION {[1..n -> {<<Num(v), t>> : t \in RawTimes, v \in {1, 2}}] :
                              n \in 1..MaxRawRows}}
    \cup {Frame(<<Col("value")>>, <<<<Num(1)>>>>)}

FluxRows == {<<Time(w, "UTC"), Str(f), v>> :
               w \in {10, 20}, f \in {"humidity", "temperature"}, v \in {Num(1), Num(2), NaN}}
LongCols == <<Col("_time"), Col("_field"), Col("_value")>>

\* query_api().query_data_frame(): a frame, a list of frames, or something else
FluxAnswers ==
  {FluxData("frame", <<Frame(LongCols, rows)>>) : rows \in SeqsUpTo(FluxRows, MaxRawRows)}
    \cup {FluxData("frame", <<Frame(<<Col("_value"), Col("_time")>>, <<<<Num(1), t>>>>)>>) :
            t \in RawTimes}
    \cup {FluxData("frame", <<Frame(<<Col("_field"), Col("_value")>>,
                                    <<<<Str("humidity"), Num(1)>>>>)>>)}
    \cup {FluxData("list", fs) :
            fs \in SeqsUpTo({Frame(LongCols, <<r>>) : r \in {x \in FluxRows : x[3] = Num(1)}}
                              \cup {Frame(<<Col("_value")>>, <<<<Num(2)>>>>)}, 2)}
    \cup {FluxData("other", <<>>)}

\* the JSON of the /query endpoint
SeriesSet ==
  {[columns |-> <<TimeCol, Col("value")>>, tags |-> tg, values |-> vals] :
     tg \in {<<>>, <<<<"sensor", "s1">>>>},
     vals \in SeqsUpTo({<<t, Num(1)>> : t \in RawTimes}, 1)}
    \cup {[columns |-> <<Col("value"), TimeCol>>, tags |-> <<>>,
           values |-> <<<<Num(2), Time(10, "UTC")>>>>]}
JsonBody(has_results, results) ==
  [json |-> TRUE, has_results |-> has_results, results |-> results]
ResultItem(has_error, error, series) ==
  [has_error |-> has_error, error |-> error, series |-> series]
Bodies ==
  {[json |-> FALSE], JsonBody(FALSE, <<>>), JsonBody(TRUE, <<>>)}
    \cup {JsonBody(TRUE, <<ResultItem(TRUE, m, <<>>)>>) : m \in DriverMsgs}
    \cup {JsonBody(TRUE, <<ResultItem(FALSE, <<>>, ss)>>) : ss \in SeqsUpTo(SeriesSet, MaxSeries)}
HttpResponse(status, text, body) == [status_code |-> status, text |-> text, body |-> body]
HttpAnswers ==
  {DriverData(HttpResponse("200", "", b)) : b \in Bodies}
    \cup {DriverData(HttpResponse("500", "internal error", [json |-> FALSE]))}

\* schema answers
PointDicts(key) == {<<<<key, "m1">>>>, <<<<key, "m2">>>>, <<<<"other", "m1">>>>}
V1ListAnswers(key) == {DriverData(ps) : ps \in SeqsUpTo(PointDicts(key), MaxNames)}
V2ListAnswers ==
  {DriverData(FluxData("frame", <<Frame(<<Col("_value")>>, rows)>>)) :
     rows \in SeqsUpTo({<<Str("m1")>>, <<Str("m2")>>, <<Str("_start")>>, <<Num(1)>>}, MaxNames)}
    \cup {DriverData(FluxData("list", <<>>)), DriverData(FluxData("other", <<>>)),
          DriverData(FluxData("frame", <<Frame(<<Col("name")>>, <<<<Str("m1")>>>>)>>))}
BucketAnswers == {DriverData(xs) : xs \in SeqsUpTo({"b", "b2"}, MaxNames)}

\* the query texts a caller passes to query_raw
RawQueries ==
  {<<"S", "E", "L", "E", "C", "T", " ", "1">>, <<" ", "s", "h", "o", "w", " ", "m">>,
   <<"f", "r", "o", "m", "(", "b", ")">>, <<"d", "r", "o", "p", "s">>,
   <<"x", " ", "S", "H", "O", "W">>, <<"\n", "G", "r", "a", "n", "t">>}

FieldLists == {<<>>, <<"">>, <<"value">>, <<"", "value">>}
Request(fields, timezone) ==
  [measurement |-> "m1", fields |-> fields, start |-> 0, end |-> 30, tags |-> <<>>,
   interval |-> None, aggregation |-> None, timezone |-> timezone]

\* ------------------------------------------------------------------ get_timeseries
ClientGetTimeseries(v, bkt, req, resp) ==
  IF v = 1 THEN V1GetTimeseries(req, resp) ELSE V2GetTimeseries(bkt, req, resp)

\* ------------------------------------------------------------------ the merge engine
\* query.get(key, default): the value stored under the key, which may be None
Get(q, key, default) == IF DictHas(q, key) THEN DictGet(q, key) ELSE default

\* f"{k}={v}" for each item, joined by "_"
RECURSIVE JoinTags(_)
JoinTags(items) ==
  IF Len(items) = 0 THEN <<>>
  ELSE <<items[1][1], "=", items[1][2]>>
         \o (IF Len(items) > 1 THEN <<"_">> \o JoinTags(Tail(items)) ELSE <<>>)

\* sorted(tags.items()): by key (the keys of a mapping are distinct)
SortItems(items) ==
  LET keys == SortStrs({items[i][1] : i \in 1..Len(items)})
  IN [i \in 1..Len(keys) |-> <<keys[i], DictGet(items, keys[i])>>]

\* a faulty variant: the tags are joined in the order they were inserted
_series_prefix_unsorted(measurement, tags) ==
  IF IsNone(tags) \/ Len(Val(tags)) = 0 THEN <<measurement>>
  ELSE <<measurement, "_">> \o JoinTags(Val(tags))

_series_prefix(measurement, tags) ==
  IF IsNone(tags) \/ Len(Val(tags)) = 0 THEN <<measurement>>
  ELSE <<measurement, "_">> \o JoinTags(SortItems(Val(tags)))

_prefix_columns(df, prefix) ==
  IF IsEmpty(df) THEN df
  ELSE IF ~HasCol(df, TimeCol) THEN df
  ELSE Frame([i \in 1..Len(df.cols) |->
                IF df.cols[i] = TimeCol THEN TimeCol ELSE prefix \o <<"_">> \o df.cols[i]],
             df.rows)

\* the rows of a frame whose time is t, without the time cell
RowsAt(df, t) ==
  LET k == ColIndex(df, TimeCol)
      hits == SelectSeq(df.rows, LAMBDA row : row[k] = t)
  IN [r \in 1..Len(hits) |->
        [i \in 1..(Len(df.cols) - 1) |-> hits[r][IF i < k THEN i ELSE i + 1]]]
NonTimeCols(df) == SelectSeq(df.cols, LAMBDA c : c # TimeCol)
NaNRow(n) == [i \in 1..n |-> NaN]

\* the rows an outer join makes for one key: every pairing of the two sides' rows,
\* and NaN for a side that has none
JoinAt(left, right, t) ==
  LET ls == IF Len(RowsAt(left, t)) = 0
            THEN <<NaNRow(Len(left.cols) - 1)>> ELSE RowsAt(left, t)
      rs == IF Len(RowsAt(right, t)) = 0
            THEN <<NaNRow(Len(right.cols) - 1)>> ELSE RowsAt(right, t)
  IN [n \in 1..(Len(ls) * Len(rs)) |->
        <<t>> \o ls[((n - 1) \div Len(rs)) + 1] \o rs[((n - 1) % Len(rs)) + 1]]

\* the keys of the join in ascending order (all of one call carry the same zone)
SortTimes(cells) ==
  LET walls == SortInts({c.wall : c \in cells})
  IN [i \in 1..Len(walls) |-> CHOOSE c \in cells : c.wall = walls[i]]

\* the names of the joined frame: the key, then the left and the right columns, the
\* names the two sides share told apart by _x and _y
JoinCols(left, right) ==
  LET lc == NonTimeCols(left)
      rc == NonTimeCols(right)
  IN <<TimeCol>>
       \o [i \in 1..Len(lc) |-> IF lc[i] \in Range(rc) THEN lc[i] \o <<"_x">> ELSE lc[i]]
       \o [i \in 1..Len(rc) |-> IF rc[i] \in Range(lc) THEN rc[i] \o <<"_y">> ELSE rc[i]]

\* a faulty variant: only the times both sides have are kept
MergeKeys_inner(left, right) ==
  Range(Column(left, TimeCol)) \cap Range(Column(right, TimeCol))

\* how="outer": the union of the keys of both sides
MergeKeys(left, right) ==
  Range(Column(left, TimeCol)) \cup Range(Column(right, TimeCol))

\* left.merge(right, on="time", how="outer"), the key column put where pandas puts
\* it when it is the first column of the left frame
MergeOuter(left, right) ==
  LET keys == SortTimes(MergeKeys(left, right))
  IN Frame(JoinCols(left, right),
           Concat([i \in 1..Len(keys) |-> JoinAt(left, right, keys[i])]))

\* a faulty variant: the new series is put in front of the ones merged so far
_merge_on_time_swapped(left, right) ==
  IF IsEmpty(left) THEN [err |-> None, df |-> right]
  ELSE IF IsEmpty(right) THEN [err |-> None, df |-> left]
  ELSE IF ~HasCol(left, TimeCol) \/ ~HasCol(right, TimeCol)
  THEN [err |-> Some("KeyError"), df |-> EmptyFrame]
  ELSE [err |-> None, df |-> MergeOuter(right, left)]

\* _merge_on_time: the frame, or the KeyError of a side without the time column
_merge_on_time(left, right) ==
  IF IsEmpty(left) THEN [err |-> None, df |-> right]
  ELSE IF IsEmpty(right) THEN [err |-> None, df |-> left]
  ELSE IF ~HasCol(left, TimeCol) \/ ~HasCol(right, TimeCol)
  THEN [err |-> Some("KeyError"), df |-> EmptyFrame]
  ELSE [err |-> None, df |-> MergeOuter(left, right)]

\* a fields value: one string, or a list of strings
OneField(x) == [isstr |-> TRUE, items |-> <<x>>]
FieldList(xs) == [isstr |-> FALSE, items |-> xs]

\* the fields an entry asks for (base.py lines 80-85)
EntryFields(q) ==
  LET fields == Get(q, "fields", None)
  IN IF IsNone(fields) THEN Get(q, "fieldKey", Some(OneField("value")))
     ELSE fields

GmtStart == [i |-> 1, used |-> 0, merged |-> EmptyFrame, calls |-> <<>>, asked |-> <<>>,
             fetched |-> <<>>, raised |-> None]

\* F(x), with x evaluated once
With(x, F(_)) == CHOOSE r \in {F(y) : y \in {x}} : TRUE

\* lines 103-107: what is done with the table get_timeseries returned
GmtMerge(acc, measurement, tags, df) ==
  LET got == [acc EXCEPT !.fetched = Append(@, df)]
  IN IF IsEmpty(df) THEN got
     ELSE LET prefix == _series_prefix(measurement, tags)
              m == _merge_on_time(acc.merged, _prefix_columns(df, prefix))
          IN IF ~IsNone(m.err)
             THEN [got EXCEPT !.raised = Some(Raise(Val(m.err), <<"time">>))]
             ELSE [got EXCEPT !.merged = m.df]

\* lines 93-107: the fetch of one entry; an exception of get_timeseries is let through
GmtFetched(acc, measurement, tags, e) ==
  LET called == [acc EXCEPT !.i = @ + 1, !.used = @ + Len(e.calls), !.calls = @ \o e.calls]
  IN IF e.outcome.kind # "returned" THEN [called EXCEPT !.raised = Some(e.outcome)]
     ELSE GmtMerge(called, measurement, tags, e.result.df)

\* a faulty variant: an entry that fails validation is passed over
GmtInvalid_skips(acc, msg) == [acc EXCEPT !.i = @ + 1]

\* raise ValueError(msg) (base.py lines 78, 90)
GmtInvalid(acc, msg) == [acc EXCEPT !.raised = Some(Raise("ValueError", msg))]

\* the body of the loop for one entry (base.py lines 76-107)
GmtStep(v, bkt, q, defaults, resp, acc) ==
  LET measurement == Get(q, "measurement", None)
      fields == EntryFields(q)
      tags == Get(q, "tags", None)
      q_start == Get(q, "start", defaults.start)
      q_end == Get(q, "end", defaults.end)
      q_interval == Get(q, "interval", defaults.interval)
      q_aggregation == Get(q, "aggregation", defaults.aggregation)
  IN IF IsNone(measurement) \/ Val(measurement) = ""
     THEN GmtInvalid(acc, <<"measurement is required in each query">>)
     ELSE IF IsNone(q_start) \/ IsNone(q_end)
     THEN GmtInvalid(acc, <<"start and end are required for get_multiple_timeseries">>)
     ELSE
       LET req == [measurement |-> Val(measurement), fields |-> Val(fields).items,
                   start |-> Val(q_start), end |-> Val(q_end),
                   tags |-> IF IsNone(tags) THEN <<>> ELSE Val(tags),
                   interval |-> q_interval, aggregation |-> q_aggregation,
                   timezone |-> defaults.timezone]
       IN With(ClientGetTimeseries(v, bkt, req, SubSeq(resp, acc.used + 1, Len(resp))),
               LAMBDA e : GmtFetched([acc EXCEPT !.asked = Append(@, req)],
                                     Val(measurement), tags, e))

\* for query in queries: ... (base.py lines 75-107)
RECURSIVE GmtLoop(_, _, _, _, _, _)
GmtLoop(v, bkt, queries, defaults, resp, acc) ==
  IF acc.i > Len(queries) \/ ~IsNone(acc.raised) THEN acc
  ELSE With(GmtStep(v, bkt, queries[acc.i], defaults, resp, acc),
            LAMBDA next : GmtLoop(v, bkt, queries, defaults, resp, next))

GmtDone(run) ==
  [Effect(IF IsNone(run.raised) THEN Returned ELSE Val(run.raised), run.calls, <<>>,
          IF IsNone(run.raised) THEN FrameResult(run.merged) ELSE NoResult)
   EXCEPT !.asked = run.asked, !.fetched = run.fetched]

GetMultipleTimeseriesEffect(v, bkt, queries, defaults, resp) ==
  With(GmtLoop(v, bkt, queries, defaults, resp, GmtStart), GmtDone)

\* the entries of a request
TagsBA == <<<<"b", "2">>, <<"a", "1">>>>
TagsAB == <<<<"a", "1">>, <<"b", "2">>>>
Entries ==
  {<<<<"measurement", Some("power")>>, <<"start", Some(0)>>, <<"end", Some(30)>>>>,
   <<<<"measurement", Some("power")>>, <<"fieldKey", Some(OneField("value"))>>,
     <<"tags", Some(TagsBA)>>, <<"start", Some(0)>>, <<"end", Some(30)>>>>,
   <<<<"measurement", Some("power")>>, <<"fieldKey", Some(OneField("value"))>>,
     <<"tags", Some(TagsAB)>>, <<"start", Some(0)>>, <<"end", Some(30)>>>>,
   <<<<"measurement", Some("m2")>>, <<"fields", Some(FieldList(<<"value">>))>>,
     <<"interval", None>>>>,
   <<<<"fields", Some(FieldList(<<"value">>))>>, <<"start", Some(0)>>, <<"end", Some(30)>>>>,
   <<<<"measurement", Some("m2")>>, <<"start", None>>, <<"end", Some(20)>>,
     <<"interval", Some("1h")>>, <<"aggregation", None>>>>}

Defaults(start, end, interval, aggregation, timezone) ==
  [start |-> start, end |-> end, interval |-> interval, aggregation |-> aggregation,
   timezone |-> timezone]

\* the call-level arguments of get_multiple_timeseries
CallDefaults ==
  {Defaults(None, None, None, None, "UTC"),
   Defaults(Some(5), Some(25), None, None, "Europe/Zurich"),
   Defaults(Some(5), Some(25), Some("5m"), Some("mean"), "UTC")}

\* what the backend answers to the fetch of one entry
MergeAnswers(v) ==
  IF v = 1
  THEN {DriverData(df) : df \in
          {EmptyFrame,
           Frame(<<TimeCol, Col("value")>>, <<<<Time(10, "UTC"), Num(1)>>>>),
           Frame(<<Col("value"), TimeCol>>,
                 <<<<Num(2), Time(20, "UTC")>>, <<Num(1), Time(10, "UTC")>>>>),
           Frame(<<TimeCol, Col("value")>>,
                 <<<<Time(10, "UTC"), Num(1)>>, <<Time(10, "UTC"), Num(2)>>>>),
           Frame(<<Col("value")>>, <<<<Num(1)>>>>)}}
  ELSE {DriverData(FluxData("frame", <<Frame(LongCols, rows)>>)) : rows \in
          {<<>>,
           <<<<Time(10, "UTC"), Str("value"), Num(1)>>>>,
           <<<<Time(20, "UTC"), Str("value"), Num(2)>>,
             <<Time(10, "UTC"), Str("value"), Num(1)>>>>,
           <<<<Time(10, "UTC"), Str("humidity"), Num(1)>>,
             <<Time(10, "UTC"), Str("value"), Num(2)>>>>}}
       \cup {DriverData(FluxData("frame", <<Frame(<<Col("_value")>>, <<<<Num(1)>>>>)>>))}

\* ------------------------------------------------------------------ connect / close / ping
\* what the driver may answer to ping(); its return value is not looked at
PingAnswers == {DriverOk, DriverFalse}

LifecycleEffect(o, c, r, conn, life) ==
  [outcome |-> o, calls |-> c, result |-> r, connected |-> conn, lifecycle |-> life]

DriverCall(api) == [api |-> api, record |-> <<>>]

\* ping(): True unless the driver has a ping that raises
PingOk(has_ping, resp) == ~has_ping \/ resp[1].r # "raise"

ClientPing(has_ping, resp, conn, life) ==
  LifecycleEffect(Returned, IF has_ping THEN <<DriverCall("ping")>> ELSE <<>>,
                  BoolResult(PingOk(has_ping, resp)), conn, life)

\* connect(): ping, then connected = True; every exception, its own "Ping failed"
\* included, sets connected = False and is raised as InfluxDBConnectionError
ClientConnect(has_ping, resp) ==
  LET c == IF has_ping THEN <<DriverCall("ping")>> ELSE <<>>
  IN IF PingOk(has_ping, resp)
     THEN LifecycleEffect(Returned, c, NoResult, TRUE, "connect returned")
     ELSE LifecycleEffect(Raise("InfluxDBConnectionError", <<"Ping failed">>), c, NoResult,
                          FALSE, "connect raised")

\* close(): the driver's close() first, and only after it connected = False
ClientClose(has_close, resp, conn) ==
  IF has_close /\ resp[1].r = "raise"
  THEN LifecycleEffect(Raise("DriverError", resp[1].msg), <<DriverCall("close")>>, NoResult,
                       conn, "close raised")
  ELSE LifecycleEffect(Returned, IF has_close THEN <<DriverCall("close")>> ELSE <<>>,
                       NoResult, FALSE, "close returned")

\* with client: body.  __enter__ calls connect(); the body runs when that returned;
\* __exit__ calls close() and returns False, so the body's exception goes on unless
\* close() raises one of its own
BodyEnds == {"returns", "raises"}
BlockEffect(o, c, a, conn, life) ==
  [outcome |-> o, calls |-> c, asked |-> a, connected |-> conn, lifecycle |-> life]

WithBlock(has_ping, has_close, body, resp, conn) ==
  LET enter == ClientConnect(has_ping, resp)
      exit == ClientClose(has_close, IF has_ping THEN Tail(resp) ELSE resp, enter.connected)
  IN IF enter.outcome # Returned
     THEN BlockEffect(enter.outcome, enter.calls, <<"connect">>, enter.connected,
                      enter.lifecycle)
     ELSE BlockEffect(IF exit.outcome # Returned THEN exit.outcome
                      ELSE IF body = "raises" THEN Raise("BodyError", <<"body">>)
                      ELSE Returned,
                      enter.calls \o exit.calls, <<"connect", "close">>, exit.connected,
                      exit.lifecycle)

\* ------------------------------------------------------------------ config.py, client.py
\* the mappings over at most n of the keys, each key with one of its values;
\* vals[k] is the set of values key number k may carry
RECURSIVE Mappings(_, _, _)
Mappings(keys, vals, n) ==
  IF Len(keys) = 0 \/ n = 0 THEN {<<>>}
  ELSE Mappings(Tail(keys), Tail(vals), n)
         \cup {<<<<keys[1], v>>>> \o m : v \in vals[1],
                                       m \in Mappings(Tail(keys), Tail(vals), n - 1)}

DictPop(d, k) == SelectSeq(d, LAMBDA p : p[1] # k)

V2Keys == <<"url", "token", "org">>
V1Keys == <<"host", "database", "username", "user", "password", "pwd">>

\* any(config.get(k) not in (None, "") for k in keys)
AnyGiven(config, keys) ==
  \E i \in 1..Len(keys) : Get(config, keys[i], None) \notin {None, Some("")}

Detected(n) == [raised |-> None, version |-> n]
NotDetected(msg) == [raised |-> Some(Raise("ValueError", msg)), version |-> 0]

\* InfluxDBClientFactory._detect_version
_detect_version(config) ==
  LET has_v2 == AnyGiven(config, V2Keys)
      has_v1 == AnyGiven(config, V1Keys)
  IN IF has_v2 /\ has_v1 THEN NotDetected(<<"Ambiguous config">>)
     ELSE IF has_v2 THEN Detected(2)
     ELSE IF has_v1 THEN Detected(1)
     ELSE NotDetected(<<"Could not infer InfluxDB version from config">>)

\* the values allow_write is given: a boolean, or a string (Str)
Flag(b) == [k |-> "bool", b |-> b]

\* bool(x): None, False and "" are false, every other string is true
Truthy(o) == ~IsNone(o) /\ (IF Val(o).k = "bool" THEN Val(o).b ELSE Val(o).s # "")

resolve_v1_config(config) ==
  [host |-> Get(config, "host", None),
   username |-> Get(config, "username", Get(config, "user", None)),
   password |-> Get(config, "password", Get(config, "pwd", None)),
   database |-> Get(config, "database", None),
   allow_write |-> Truthy(Get(config, "allow_write", Some(Flag(FALSE))))]

resolve_v2_config(config) ==
  [url |-> Get(config, "url", None),
   token |-> Get(config, "token", None),
   org |-> Get(config, "org", None),
   bucket |-> Get(config, "bucket", None),
   allow_write |-> Truthy(Get(config, "allow_write", Some(Flag(FALSE))))]

FactoryEffect(o, r) == [outcome |-> o, result |-> r]
NewClient(v, aw, bkt) ==
  FactoryEffect(Returned, [kind |-> "client", version |-> v, allow_write |-> aw,
                           bucket |-> bkt])
NoClient(kind, msg) == FactoryEffect(Raise(kind, msg), NoResult)

\* InfluxDBClientV1.__init__
NewV1(cfg) == NewClient(1, cfg.allow_write, "")

\* InfluxDBClientV2.__init__: url.rstrip("/") needs a string
NewV2(cfg) ==
  IF IsNone(cfg.url)
  THEN NoClient("AttributeError", <<"'NoneType' object has no attribute 'rstrip'">>)
  ELSE NewClient(2, cfg.allow_write, IF IsNone(cfg.bucket) THEN "" ELSE Val(cfg.bucket))

\* InfluxDBClientFactory.get_client; config is None or Some(mapping)
get_client(ver, config) ==
  IF IsNone(config) THEN NoClient("ValueError", <<"config is required">>)
  ELSE LET found == IF IsNone(ver) THEN _detect_version(Val(config)) ELSE Detected(Val(ver))
       IN IF ~IsNone(found.raised)
          THEN FactoryEffect(Val(found.raised), NoResult)
          ELSE IF found.version = 1 THEN NewV1(resolve_v1_config(Val(config)))
          ELSE IF found.version = 2 THEN NewV2(resolve_v2_config(Val(config)))
          ELSE NoClient("ValueError", <<"Unsupported InfluxDB version">>)

MaxConfigKeys == 2  \* most keys of a config mapping handed to the factory

ConfigKeys == V2Keys \o V1Keys \o <<"bucket", "allow_write">>
ConfigValues ==
  [i \in 1..Len(ConfigKeys) |->
     IF ConfigKeys[i] = "bucket" THEN {Some("b")}
     ELSE IF ConfigKeys[i] = "allow_write"
     THEN {Some(Flag(TRUE)), Some(Flag(FALSE)), Some(Str("true")), Some(Str("false")),
           Some(Str("0"))}
     ELSE {None, Some(""), Some("x")}]
Configs == Mappings(ConfigKeys, ConfigValues, MaxConfigKeys)
VersionArgs == {None, Some(1), Some(2), Some(3)}

\* ------------------------------------------------------------------ profiles.py
CONNECTION_PROFILES ==
  <<<<"v1_flimatec",
      <<<<"version", Some(1)>>, <<"host", Some("influxdbv1.mdb.ige-hslu.io")>>,
        <<"port", Some(8086)>>, <<"database", Some("flimatec-langnau-am-albis_v2")>>,
        <<"ssl", Some(TRUE)>>, <<"verify_ssl", Some(FALSE)>>>>>>,
    <<"v1_meteo",
      <<<<"version", Some(1)>>, <<"host", Some("influxdbv1.mdb.ige-hslu.io")>>,
        <<"port", Some(8086)>>, <<"database", Some("meteoSwiss")>>,
        <<"ssl", Some(TRUE)>>, <<"verify_ssl", Some(FALSE)>>>>>>,
    <<"v1_wattsup",
      <<<<"version", Some(1)>>, <<"host", Some("influxdbv1.mdb.ige-hslu.io")>>,
        <<"port", Some(8086)>>, <<"database", Some("wattsup")>>,
        <<"ssl", Some(TRUE)>>, <<"verify_ssl", Some(FALSE)>>>>>>,
    <<"v1_mdb_connection_test",
      <<<<"version", Some(1)>>, <<"host", Some("10.180.26.130")>>,
        <<"port", Some(8086)>>, <<"database", Some("mdb-connection-test")>>,
        <<"ssl", Some(FALSE)>>, <<"verify_ssl", Some(FALSE)>>>>>>,
    <<"v2_lcm_kwh_legionellen",
      <<<<"version", Some(2)>>, <<"url", Some("https://influxdbv2.mdb.ige-hslu.io")>>,
        <<"bucket", Some("lcm-kwh-legionellen")>>>>>>,
    <<"v2_meteo",
      <<<<"version", Some(2)>>, <<"url", Some("https://influxdbv2.mdb.ige-hslu.io")>>,
        <<"bucket", Some("meteoSwiss")>>>>>>>>

\* os.getenv(name, default): the environment is a mapping from names to strings
Getenv(env, name, default) == IF DictHas(env, name) THEN DictGet(env, name) ELSE default

\* x if x else None
OrNone(text) == IF text = "" THEN None ELSE Some(text)

\* a faulty variant: the resolved profile asks for writes
ForceReadOnly_open(profile) == DictSet(profile, "allow_write", Some(Flag(TRUE)))

\* profile["allow_write"] = False
ForceReadOnly(profile) == DictSet(profile, "allow_write", Some(Flag(FALSE)))

ResolvedProfile(ver, profile) ==
  FactoryEffect(Returned, [kind |-> "profile", version |-> ver,
                           config |-> ForceReadOnly(profile)])

resolve_profile(name, env) ==
  IF ~DictHas(CONNECTION_PROFILES, name)
  THEN NoClient("ValueError", <<"Unknown profile", name>>)
  ELSE LET stored == DictGet(CONNECTION_PROFILES, name)
           ver == Val(DictGet(stored, "version"))
           profile == DictPop(stored, "version")
           username == Getenv(env, "INFLUXDB_V1_USER", Getenv(env, "INFLUXDB_USER", ""))
           password == Getenv(env, "INFLUXDB_V1_PASSWORD", Getenv(env, "INFLUXDB_PWD", ""))
           token == Getenv(env, "INFLUXDB_V2_TOKEN", Getenv(env, "INFLUXDB_TOKEN", ""))
           org == Getenv(env, "INFLUXDB_V2_ORG", Getenv(env, "INFLUXDB_ORG", ""))
       IN IF ver = 1
          THEN ResolvedProfile(1, DictSet(DictSet(profile, "username", OrNone(username)),
                                          "password", OrNone(password)))
          ELSE IF ver = 2
          THEN IF token = "" \/ org = ""
               THEN NoClient("ValueError",
                             <<"Profile requires INFLUXDB_V2_TOKEN and INFLUXDB_V2_ORG">>)
               ELSE ResolvedProfile(2, DictSet(DictSet(profile, "token", Some(token)),
                                               "org", Some(org)))
          ELSE NoClient("ValueError", <<"Unsupported profile version">>)

MaxEnvVars == 3  \* most environment variables that are set

EnvNames ==
  <<"INFLUXDB_ALLOW_WRITE", "INFLUXDB_V2_TOKEN", "INFLUXDB_V2_ORG", "INFLUXDB_TOKEN",
    "INFLUXDB_ORG", "INFLUXDB_V1_USER", "INFLUXDB_V1_PASSWORD", "INFLUXDB_USER",
    "INFLUXDB_PWD">>
EnvValues == [i \in 1..Len(EnvNames) |-> {"", "true"}]
Envs == Mappings(EnvNames, EnvValues, MaxEnvVars)
ProfileNames == {CONNECTION_PROFILES[i][1] : i \in 1..Len(CONNECTION_PROFILES)}
AskedNames == ProfileNames \cup {"v3_unknown"}

\* ------------------------------------------------------------------ mdcclient/_func.py
\* str.lower()
LowerChar(c) ==
  IF c \in Range(UpperCase)
  THEN LowerCase[CHOOSE i \in 1..Len(UpperCase) : UpperCase[i] = c] ELSE c
LowerText(q) == [i \in 1..Len(q) |-> LowerChar(q[i])]

\* what a wrapped function does with the client it is handed: how it ends and the
\* backend calls it makes
BodyEffect(o, c) == [outcome |-> o, calls |-> c]

\* _database: the wrapper around func.  resp[1] answers from_config_file, the next
\* answers go to the calls of func, the one after them to close()
_database(exists, body, resp) ==
  IF ~exists THEN Effect(Raise("SystemExit", <<>>), <<>>, <<>>, NoResult)
  ELSE LET opened == <<DriverCall("from_config_file")>>
       IN IF resp[1].r = "raise"
          THEN Effect(Raise("DriverError", resp[1].msg), opened, <<>>, NoResult)
          ELSE IF body.outcome # Returned
          THEN Effect(body.outcome, opened \o body.calls, <<>>, NoResult)
          ELSE IF resp[Len(body.calls) + 2].r = "raise"
          THEN Effect(Raise("DriverError", resp[Len(body.calls) + 2].msg),
                      opened \o body.calls \o <<DriverCall("close")>>, <<>>, NoResult)
          ELSE Effect(Returned, opened \o body.calls \o <<DriverCall("close")>>, <<>>,
                      NoResult)

\* a wrapped function that makes no backend call of its own
PlainBody(ends) ==
  IF ends = "raises" THEN BodyEffect(Raise("BodyError", <<"body">>), <<>>)
  ELSE BodyEffect(Returned, <<>>)

Yes == <<"y", "e", "s">>

\* a faulty variant: everything but "no" confirms
delete_measurement_unless_no(confirm, resp) ==
  LET count == DriverCall("query_api.query")
      delete == DriverCall("delete_api.delete")
  IN IF resp[2].r = "raise" THEN BodyEffect(Raise("DriverError", resp[2].msg), <<count>>)
     ELSE IF LowerText(Strip(confirm)) = <<"n", "o">> THEN BodyEffect(Returned, <<count>>)
     ELSE IF resp[3].r = "raise"
     THEN BodyEffect(Raise("DriverError", resp[3].msg), <<count, delete>>)
     ELSE BodyEffect(Returned, <<count, delete>>)

\* delete_measurement: the count query, the prompt, and the delete for "yes"
delete_measurement(confirm, resp) ==
  LET count == DriverCall("query_api.query")
      delete == DriverCall("delete_api.delete")
  IN IF resp[2].r = "raise" THEN BodyEffect(Raise("DriverError", resp[2].msg), <<count>>)
     ELSE IF LowerText(Strip(confirm)) # Yes THEN BodyEffect(Returned, <<count>>)
     ELSE IF resp[3].r = "raise"
     THEN BodyEffect(Raise("DriverError", resp[3].msg), <<count, delete>>)
     ELSE BodyEffect(Returned, <<count, delete>>)

\* what the user types at the prompt
ConfirmInputs ==
  {<<"Y", "e", "s">>, <<"y", "e", "s">>, <<" ", "Y", "E", "S", "\n">>, <<"y">>,
   <<"N", "o">>, <<>>, <<"y", "e", "s", "!">>, <<"y", " ", "e", "s">>}

\* ------------------------------------------------------------------ the client
\* how the client at hand was made: by its constructor, by the factory from a config
\* mapping, or by the factory from a resolved profile (and then: the profile's name, and
\* whether the environment it was resolved in sets INFLUXDB_ALLOW_WRITE to "true")
MadeBy(by, profile, env_writes) == [by |-> by, profile |-> profile, env_writes |-> env_writes]

Init ==
  /\ version \in {1, 2}
  /\ allow_write \in BOOLEAN
  /\ bucket \in {"", "b"}
  /\ (version = 1 => bucket = "")
  /\ op = "none"
  /\ args = [none |-> TRUE]
  /\ driver = <<>>
  /\ calls = <<>>
  /\ store = <<>>
  /\ asked = <<>>
  /\ fetched = <<>>
  /\ connected = FALSE
  /\ lifecycle = "none"
  /\ made_from = MadeBy("constructor", "", FALSE)
  /\ outcome = [kind |-> "none", msg |-> <<>>]
  /\ result = NoResult

\* no call is in progress or unreturned: the caller may make one (single-threaded,
\* blocking calls)
Idle == op = "none"

\* a method call: its effect on what the client and the backend show
Call(name, a, resp, e) ==
  /\ op' = name
  /\ args' = a
  /\ driver' = SubSeq(resp, 1, Min(Len(resp), Len(e.calls)))
  /\ calls' = e.calls
  /\ store' = e.store
  /\ asked' = e.asked
  /\ fetched' = e.fetched
  /\ outcome' = e.outcome
  /\ result' = e.result
  /\ UNCHANGED <<version, allow_write, bucket, connected, lifecycle, made_from>>

WritePoints ==
  /\ Idle
  /\ \E points \in SeqsUpTo(PointSet, MaxPoints), batch_size \in BatchSizes :
    \E resp \in DriverRuns(WriteAnswers(version),
                           NChunks(version, allow_write, bucket, points, batch_size)) :
      Call("write_points",
           [points |-> points, measurement |-> "m", batch_size |-> batch_size], resp,
           ClientWritePoints(version, allow_write, bucket, points, "m", batch_size, resp))

WriteDataframe ==
  /\ Idle
  /\ \E df \in Frames, batch_size \in BatchSizes :
    \E resp \in DriverRuns(WriteAnswers(version),
                           IF df.has_time
                           THEN NChunks(version, allow_write, bucket, df.rows, batch_size)
                           ELSE 0) :
      Call("write_dataframe",
           [df |-> df, measurement |-> "m", batch_size |-> batch_size], resp,
           ClientWriteDataframe(version, allow_write, bucket, df, "m", batch_size, resp))

DeleteRange ==
  /\ Idle
  /\ \E resp \in DriverRuns({DriverOk},
                         IF version = 2 /\ _ensure_writes_allowed(allow_write) /\ bucket # ""
                         THEN 1 ELSE 0) :
    Call("delete_range", [measurement |-> "m"], resp,
         ClientDeleteRange(version, allow_write, bucket, "m", resp))

CreateDatabase ==
  /\ Idle
  /\ Call("create_database", [name |-> "x"], <<>>, DisabledOp("create_database", allow_write))

DeleteDatabase ==
  /\ Idle
  /\ Call("delete_database", [name |-> "x"], <<>>, DisabledOp("delete_database", allow_write))

CreateBucket ==
  /\ Idle
  /\ Call("create_bucket", [name |-> "x"], <<>>,
       IF version = 2 THEN DisabledOp("create_bucket", allow_write)
       ELSE BaseOp("create_bucket", allow_write))

CreateUser ==
  /\ Idle
  /\ Call("create_user", [name |-> "u"], <<>>,
       IF version = 1 THEN DisabledOp("create_user", allow_write)
       ELSE BaseOp("create_user", allow_write))

DeleteUser ==
  /\ Idle
  /\ Call("delete_user", [name |-> "u"], <<>>,
       IF version = 1 THEN DisabledOp("delete_user", allow_write)
       ELSE BaseOp("delete_user", allow_write))

GrantPrivileges ==
  /\ Idle
  /\ Call("grant_privileges", [name |-> "u"], <<>>,
       IF version = 1 THEN DisabledOp("grant_privileges", allow_write)
       ELSE BaseOp("grant_privileges", allow_write))

GetTimeseries ==
  /\ Idle
  /\ \E fields \in FieldLists, timezone \in Timezones :
       LET req == Request(fields, timezone)
           valid == FieldsList(fields) # <<>> /\ (version = 1 \/ bucket # "")
           answers == IF version = 1 THEN {DriverData(df) : df \in RawFramesV1}
                      ELSE {DriverData(a) : a \in FluxAnswers}
       IN \E resp \in DriverRuns(answers, IF valid THEN 1 ELSE 0) :
            Call("get_timeseries", req, resp,
                 IF version = 1 THEN V1GetTimeseries(req, resp)
                 ELSE V2GetTimeseries(bucket, req, resp))

QueryRaw ==
  /\ Idle
  /\ \E query \in RawQueries, timezone \in Timezones :
       LET valid == version = 1 \/ ~_is_influxql(query) \/ bucket # ""
           answers == IF version = 1 THEN {DriverData(df) : df \in RawFramesV1}
                      ELSE IF _is_influxql(query) THEN HttpAnswers
                      ELSE {DriverData(a) : a \in FluxAnswers}
       IN \E resp \in DriverRuns(answers, IF valid THEN 1 ELSE 0) :
            Call("query_raw", [query |-> query, timezone |-> timezone], resp,
                 IF version = 1 THEN V1QueryRaw(query, timezone, resp)
                 ELSE V2QueryRaw(bucket, query, timezone, resp))

Databases == {"", "db", "other"}
\* whether a v2 schema listing gets as far as the backend
V2Valid(database) == database # "" \/ bucket # ""

ListMeasurements ==
  /\ Idle
  /\ \E database \in Databases :
       \E resp \in DriverRuns(IF version = 1 THEN V1ListAnswers("name") ELSE V2ListAnswers,
                              IF version = 1 \/ V2Valid(database) THEN 1 ELSE 0) :
         Call("list_measurements", [database |-> database], resp,
              IF version = 1 THEN V1ListMeasurements(database, resp)
              ELSE V2ListMeasurements(bucket, database, resp))

GetTags ==
  /\ Idle
  /\ \E database \in Databases :
       \E resp \in DriverRuns(IF version = 1 THEN V1ListAnswers("tagKey") ELSE V2ListAnswers,
                              IF version = 1 \/ V2Valid(database) THEN 1 ELSE 0) :
         Call("get_tags", [measurement |-> "m1", database |-> database], resp,
              IF version = 1 THEN V1GetTags("m1", database, resp)
              ELSE V2GetTags(bucket, "m1", database, resp))

GetTagValues ==
  /\ Idle
  /\ \E database \in Databases :
       \E resp \in DriverRuns(IF version = 1 THEN V1ListAnswers("value") ELSE V2ListAnswers,
                              IF version = 1 \/ V2Valid(database) THEN 1 ELSE 0) :
         Call("get_tag_values",
              [measurement |-> "m1", tag_key |-> "sensor", database |-> database], resp,
              IF version = 1 THEN V1GetTagValues("m1", "sensor", database, resp)
              ELSE V2GetTagValues(bucket, "m1", "sensor", database, resp))

GetFields ==
  /\ Idle
  /\ \E database \in Databases :
       \E resp \in DriverRuns(IF version = 1 THEN V1ListAnswers("fieldKey") ELSE V2ListAnswers,
                              IF version = 1 \/ V2Valid(database) THEN 1 ELSE 0) :
         Call("get_fields", [measurement |-> "m1", database |-> database], resp,
              IF version = 1 THEN V1GetFields("m1", database, resp)
              ELSE V2GetFields(bucket, "m1", database, resp))

ListDatabases ==
  /\ Idle
  /\ \E resp \in DriverRuns(V1ListAnswers("name"), IF version = 1 THEN 1 ELSE 0) :
       Call("list_databases", [none |-> TRUE], resp,
            IF version = 1 THEN V1ListDatabases(resp) ELSE BaseListing("list_databases"))

ListBuckets ==
  /\ Idle
  /\ \E resp \in DriverRuns(BucketAnswers, IF version = 2 THEN 1 ELSE 0) :
       Call("list_buckets", [none |-> TRUE], resp,
            IF version = 2 THEN V2ListBuckets(resp) ELSE BaseListing("list_buckets"))

GetMultipleTimeseries ==
  /\ Idle
  /\ \E queries \in SeqsUpTo(Entries, MaxQueries), defaults \in CallDefaults :
       \E resp \in DriverRuns(MergeAnswers(version), Len(queries)) :
         Call("get_multiple_timeseries", [queries |-> queries, defaults |-> defaults], resp,
              GetMultipleTimeseriesEffect(version, bucket, queries, defaults, resp))

\* the caller has seen how the call ended and is free to make the next one
Return ==
  /\ op # "none"
  /\ op' = "none"
  /\ args' = [none |-> TRUE]
  /\ driver' = <<>>
  /\ calls' = <<>>
  /\ store' = <<>>
  /\ asked' = <<>>
  /\ fetched' = <<>>
  /\ outcome' = [kind |-> "none", msg |-> <<>>]
  /\ result' = NoResult
  /\ UNCHANGED <<version, allow_write, bucket, connected, lifecycle, made_from>>

Next ==
  \/ Return
  \/ WritePoints
  \/ WriteDataframe
  \/ DeleteRange
  \/ CreateDatabase
  \/ DeleteDatabase
  \/ CreateBucket
  \/ CreateUser
  \/ DeleteUser
  \/ GrantPrivileges
  \/ GetTimeseries
  \/ QueryRaw
  \/ ListMeasurements
  \/ GetTags
  \/ GetTagValues
  \/ GetFields
  \/ ListDatabases
  \/ ListBuckets

Spec == Init /\ [][Next]_vars

\* the merge engine on its own: a client that is only asked for merged series
NextMerge ==
  \/ Return
  \/ GetMultipleTimeseries

SpecMerge == Init /\ [][NextMerge]_vars

\* a connect(), close() or ping() call: its effect on the client and the backend
LifecycleCall(name, a, resp, e) ==
  /\ op' = name
  /\ args' = a
  /\ driver' = SubSeq(resp, 1, Min(Len(resp), Len(e.calls)))
  /\ calls' = e.calls
  /\ outcome' = e.outcome
  /\ result' = e.result
  /\ connected' = e.connected
  /\ lifecycle' = e.lifecycle
  /\ UNCHANGED <<version, allow_write, bucket, made_from, store, asked, fetched>>

Connect ==
  /\ Idle
  /\ \E has_ping \in BOOLEAN :
       \E resp \in DriverRuns(PingAnswers, IF has_ping THEN 1 ELSE 0) :
         LifecycleCall("connect", [has_ping |-> has_ping], resp, ClientConnect(has_ping, resp))

Close ==
  /\ Idle
  /\ \E has_close \in BOOLEAN :
       \E resp \in DriverRuns({DriverOk}, IF has_close THEN 1 ELSE 0) :
         LifecycleCall("close", [has_close |-> has_close], resp,
                       ClientClose(has_close, resp, connected))

Ping ==
  /\ Idle
  /\ \E has_ping \in BOOLEAN :
       \E resp \in DriverRuns(PingAnswers, IF has_ping THEN 1 ELSE 0) :
         LifecycleCall("ping", [has_ping |-> has_ping], resp,
                       ClientPing(has_ping, resp, connected, lifecycle))

WithClient ==
  /\ Idle
  /\ \E has_ping \in BOOLEAN, has_close \in BOOLEAN, body \in BodyEnds :
       \E resp \in DriverRuns(PingAnswers,
                              (IF has_ping THEN 1 ELSE 0) + (IF has_close THEN 1 ELSE 0)) :
         LET e == WithBlock(has_ping, has_close, body, resp, connected)
         IN /\ op' = "with"
            /\ args' = [has_ping |-> has_ping, has_close |-> has_close, body |-> body]
            /\ driver' = SubSeq(resp, 1, Min(Len(resp), Len(e.calls)))
            /\ calls' = e.calls
            /\ asked' = e.asked
            /\ outcome' = e.outcome
            /\ result' = NoResult
            /\ connected' = e.connected
            /\ lifecycle' = e.lifecycle
            /\ UNCHANGED <<version, allow_write, bucket, made_from, store, fetched>>

\* the connection lifecycle on its own
NextLifecycle ==
  \/ Return
  \/ Connect
  \/ Close
  \/ Ping
  \/ WithClient

SpecLifecycle == Init /\ [][NextLifecycle]_vars

\* the two query builders on their own, on the same request
BuilderFields == {<<"value">>, <<"f1", "f2">>}
BuilderTags == {<<>>, <<<<"k", "v">>>>}
Intervals == {None, Some(""), Some("5m")}
Aggregations == {None, Some(""), Some("mean")}

BuildQueries ==
  /\ Idle
  /\ \E fields \in BuilderFields, tags \in BuilderTags, interval \in Intervals,
        aggregation \in Aggregations, timezone \in {"UTC", ""} :
       Call("build_query",
            [measurement |-> "m", fields |-> fields, start |-> 0, end |-> 30,
             tags |-> tags, interval |-> interval, aggregation |-> aggregation,
             timezone |-> timezone], <<>>,
            Effect(Returned, <<>>, <<>>,
                   [kind |-> "texts",
                    influxql |-> build_influxql_query("m", fields, 0, 30, tags, interval,
                                                      aggregation, timezone),
                    flux |-> build_flux_query("b", "m", fields, 0, 30, tags, interval,
                                              aggregation)]))

NextBuilders ==
  \/ Return
  \/ BuildQueries

SpecBuilders == Init /\ [][NextBuilders]_vars

\* a function under the _database decorator
WrappedCall ==
  /\ Idle
  /\ \E exists \in BOOLEAN, ends \in BodyEnds :
       \E resp \in DriverRuns({DriverOk}, 2) :
         Call("wrapped", [exists |-> exists, body |-> ends], resp,
              _database(exists, PlainBody(ends), resp))

DeleteMeasurement ==
  /\ Idle
  /\ \E exists \in BOOLEAN, confirm \in ConfirmInputs :
       \E resp \in DriverRuns({DriverOk}, 4) :
         Call("delete_measurement", [exists |-> exists, confirm |-> confirm], resp,
              _database(exists, delete_measurement(confirm, resp), resp))

\* the mdcclient functions on their own
NextMdc ==
  \/ Return
  \/ WrappedCall
  \/ DeleteMeasurement

SpecMdc == Init /\ [][NextMdc]_vars

\* a call of the factory or of the profile registry; a client the factory returns
\* takes the place of the client at hand
FactoryCall(name, a, e, made) ==
  /\ op' = name
  /\ args' = a
  /\ driver' = <<>>
  /\ calls' = <<>>
  /\ store' = <<>>
  /\ asked' = <<>>
  /\ fetched' = <<>>
  /\ outcome' = e.outcome
  /\ result' = e.result
  /\ IF e.result.kind = "client"
     THEN /\ version' = e.result.version
          /\ allow_write' = e.result.allow_write
          /\ bucket' = e.result.bucket
          /\ connected' = FALSE
          /\ lifecycle' = "none"
          /\ made_from' = made
     ELSE UNCHANGED <<version, allow_write, bucket, connected, lifecycle, made_from>>

GetClient ==
  /\ Idle
  /\ \E ver \in VersionArgs, config \in {None} \cup {Some(c) : c \in Configs} :
       FactoryCall("get_client", [version |-> ver, config |-> config],
                   get_client(ver, config), MadeBy("factory", "", FALSE))

ResolveProfile ==
  /\ Idle
  /\ \E name \in AskedNames, env \in Envs :
       FactoryCall("resolve_profile", [name |-> name, env |-> env],
                   resolve_profile(name, env), made_from)

\* version, config = resolve_profile(name); get_client(version, config)
GetClientFromProfile ==
  /\ op = "resolve_profile"
  /\ outcome = Returned
  /\ FactoryCall("get_client",
                 [version |-> Some(result.version), config |-> Some(result.config)],
                 get_client(Some(result.version), Some(result.config)),
                 MadeBy("profile", args.name,
                        Getenv(args.env, "INFLUXDB_ALLOW_WRITE", "") = "true"))

\* the factory on its own
NextFactory ==
  \/ Return
  \/ GetClient

SpecFactory == Init /\ [][NextFactory]_vars

\* clients made from the profile registry, and the write and admin calls on them
NextProfiles ==
  \/ Return
  \/ ResolveProfile
  \/ GetClientFromProfile
  \/ WritePoints
  \/ WriteDataframe
  \/ DeleteRange
  \/ CreateDatabase
  \/ DeleteDatabase
  \/ CreateBucket
  \/ CreateUser
  \/ DeleteUser
  \/ GrantPrivileges

SpecProfiles == Init /\ [][NextProfiles]_vars

\* ------------------------------------------------------------------ properties
WriteAdminOps ==
  {"write_points", "write_dataframe", "delete_range", "create_database",
   "delete_database", "create_bucket", "create_user", "delete_user", "grant_privileges"}
AdminOps ==
  {"create_database", "delete_database", "create_bucket", "create_user", "delete_user",
   "grant_privileges"}

\* C1: on a client built with allow_write false, every write, delete and admin call
\* raises UnsafeOperationError (not a validation or an unsupported-operation error)
\* and the backend driver receives no call.
C1_WriteGate ==
  (op \in WriteAdminOps /\ ~allow_write)
    => (outcome.kind = "UnsafeOperationError" /\ calls = <<>> /\ store = <<>>)

\* a v2 client without a bucket, where a validation error could have come first
C1_Witness ==
  /\ op = "write_points" /\ ~allow_write /\ version = 2 /\ bucket = ""
  /\ Len(args.points) > 0
  /\ outcome.kind = "UnsafeOperationError"

\* C2: with allow_write true, each admin mutation raises UnsupportedOperationError
\* and makes no backend call.
C2_AdminDisabled ==
  (op \in AdminOps /\ allow_write)
    => (outcome.kind = "UnsupportedOperationError" /\ calls = <<>>)

C2_Witness ==
  /\ op = "create_bucket" /\ allow_write /\ version = 2
  /\ outcome.kind = "UnsupportedOperationError"

Ceil(n, k) == (n + k - 1) \div k

\* C7: a write_points call with batch size k > 0 that returns has made exactly
\* ceil(N/k) backend write calls of at most k points each, and its WriteResult
\* reports batches = ceil(N/k) and points = N (v1 and v2).
C7_BatchCount ==
  (op = "write_points" /\ outcome.kind = "returned" /\ ~IsNone(args.batch_size))
    => LET k == Val(args.batch_size)
           n == Len(args.points)
       IN /\ k > 0
          /\ Len(calls) = Ceil(n, k)
          /\ \A i \in 1..Len(calls) : Len(calls[i].record) <= k
          /\ result.batches = Ceil(n, k)
          /\ result.points = n

\* 5 points with k = 2: three calls of sizes 2, 2, 1
C7_Witness ==
  /\ op = "write_points" /\ outcome.kind = "returned" /\ version = 2
  /\ Len(args.points) = 5 /\ args.batch_size = Some(2)
  /\ [i \in 1..Len(calls) |-> Len(calls[i].record)] = <<2, 2, 1>>
  /\ result.batches = 3

WriteOps == {"write_points", "write_dataframe"}

\* C8 as stated: once a chunk's write fails, by a raise or by a false result of the
\* v1 driver, no later chunk is sent.
C8_AbortOnAnyFailure ==
  op \in WriteOps
    => \A i \in 1..Len(driver) : driver[i].r \in {"raise", "false"} => Len(calls) = i

\* C8 (amended): chunks are sent one at a time in the order of the list; once the
\* driver raises on a chunk no later chunk is sent; the chunks the backend accepted
\* before it stay written and no compensating call is made.  A false result of the
\* v1 driver does not stop the loop: every later chunk is still sent and a returned
\* WriteResult has success = false.
C8_AbortOnRaise ==
  op \in WriteOps
    => LET sent == Concat([i \in 1..Len(calls) |-> calls[i].record])
           pts == IF op = "write_points" THEN args.points ELSE args.df.rows
           accepted == Concat([i \in 1..Len(calls) |->
                                 IF driver[i].r = "ok" THEN calls[i].record ELSE <<>>])
       IN /\ Len(driver) = Len(calls)
          /\ \A i \in 1..Len(calls) : calls[i].api \in {"write_points", "write_api.write"}
          /\ \A i \in 1..Len(driver) : driver[i].r = "raise" => Len(calls) = i
          /\ Len(sent) <= Len(pts)
          /\ \A j \in 1..Len(sent) :
                sent[j].v = (IF op = "write_points" THEN pts[j].v ELSE pts[j])
          /\ store = accepted
          /\ (\A i \in 1..Len(driver) : driver[i].r # "raise") =>
                (outcome.kind = "returned" => Len(sent) = Len(pts))
          /\ (outcome.kind = "returned" /\ \E i \in 1..Len(driver) : driver[i].r = "false")
                => result.success = FALSE

\* a false result on the first chunk, a raise on the second, a third chunk never sent
C8_Witness ==
  /\ op = "write_points" /\ version = 1 /\ args.batch_size = Some(1)
  /\ Len(args.points) = 3 /\ Len(calls) = 2
  /\ driver[1].r = "false" /\ driver[2].r = "raise"
  /\ outcome.kind = "InfluxDBQueryError"

\* the timestamps the backend handed to the call
RECURSIVE TimeCellsOfRows(_)
TimeCellsOfRows(rows) ==
  IF Len(rows) = 0 THEN {}
  ELSE {c \in Range(rows[1]) : c.k = "time"} \cup TimeCellsOfRows(Tail(rows))
TimeCellsOfFrames(frames) ==
  UNION {TimeCellsOfRows(frames[i].rows) : i \in 1..Len(frames)}
BackendTimes ==
  IF Len(driver) = 0 \/ driver[1].r # "ok" THEN {}
  ELSE IF calls[1].api = "query" THEN TimeCellsOfRows(driver[1].data.rows)
  ELSE IF calls[1].api = "query_api.query_data_frame"
  THEN TimeCellsOfFrames(driver[1].data.frames)
  ELSE IF driver[1].data.body.json /\ driver[1].data.body.has_results
          /\ Len(driver[1].data.body.results) > 0
  THEN LET ss == driver[1].data.body.results[1].series
       IN UNION {TimeCellsOfRows(ss[i].values) : i \in 1..Len(ss)}
  ELSE {}

\* the time values of a returned table
ReturnedTimes ==
  IF op \in {"get_timeseries", "query_raw"} /\ outcome.kind = "returned"
     /\ HasCol(result.df, TimeCol)
  THEN {c \in Range(Column(result.df, TimeCol)) : c.k = "time"}
  ELSE {}

Instant(raw) == raw.wall - FixedOffset(raw.tz)
IsUtcName(tz) == tz \in {"UTC", "utc"}

\* C4 as stated: every time value of a table returned by get_timeseries or query_raw
\* is zone-naive for every requested zone, "UTC" included.
C4_AlwaysNaive ==
  \A c \in ReturnedTimes :
    /\ c.tz = "naive"
    /\ \E raw \in BackendTimes :
         c.wall = Instant(raw) + ZoneOffset(args.timezone, Instant(raw))

\* C4 (amended): for a zone other than UTC every returned time value is the wall-clock
\* time in that zone with the zone stripped; for "UTC" (in any letter case, or no zone
\* at all) it has the wall-clock value of the UTC instant and stays UTC-aware.
C4_NaiveUnlessUtc ==
  \A c \in ReturnedTimes :
    IF IsUtcName(args.timezone) \/ args.timezone = ""
    THEN c.tz = "UTC" /\ \E raw \in BackendTimes : c.wall = Instant(raw)
    ELSE /\ c.tz = "naive"
         /\ \E raw \in BackendTimes :
              c.wall = Instant(raw) + ZoneOffset(args.timezone, Instant(raw))

\* 21:00+01:00 is 20:00 UTC, in summer time 22:00 in Zurich
C4_Witness ==
  /\ op = "get_timeseries" /\ version = 1 /\ args.timezone = "Europe/Zurich"
  /\ outcome.kind = "returned"
  /\ Time(21, "+01:00") \in BackendTimes
  /\ ReturnedTimes = {Time(22, "naive")}

BackendOps ==
  {"get_timeseries", "query_raw", "list_measurements", "get_tags", "get_tag_values",
   "get_fields", "list_databases", "list_buckets", "write_points", "delete_range"}

\* C5: an exception the backend driver raises during a client operation reaches the
\* caller as InfluxDBQueryError carrying the driver's message.
C5_DriverErrorsWrapped ==
  (op \in BackendOps /\ Len(driver) > 0 /\ driver[Len(driver)].r = "raise")
    => (outcome.kind = "InfluxDBQueryError" /\ outcome.msg = driver[Len(driver)].msg)

\* what makes an exchange with the compatibility endpoint a failure
CompatFailed(answer) ==
  \/ answer.r = "raise"
  \/ answer.data.status_code # "200"
  \/ ~answer.data.body.json
  \/ (answer.data.body.has_results /\ Len(answer.data.body.results) = 0)
  \/ (answer.data.body.has_results /\ Len(answer.data.body.results) > 0
      /\ answer.data.body.results[1].has_error)

\* C6: a v2 query_raw on InfluxQL text, with a bucket configured, returns a table or
\* raises InfluxDBQueryError; every failure of the exchange gives the query error.
C6_TableOrQueryError ==
  (op = "query_raw" /\ version = 2 /\ bucket # "" /\ Len(calls) = 1
   /\ calls[1].api = "requests.get")
    => /\ outcome.kind \in {"returned", "InfluxDBQueryError"}
       /\ outcome.kind = "returned" => result.kind = "frame"
       /\ CompatFailed(driver[1]) => outcome.kind = "InfluxDBQueryError"

\* ------------------------------------------------------------------ merged series
Merged == op = "get_multiple_timeseries" /\ outcome.kind = "returned"

TimesOf(df) == IF HasCol(df, TimeCol) THEN Range(Column(df, TimeCol)) ELSE {}

\* the tags of an entry as a set of key/value pairs
TagSet(q) ==
  IF ~DictHas(q, "tags") \/ IsNone(DictGet(q, "tags")) THEN {}
  ELSE Range(Val(DictGet(q, "tags")))

\* the name the documentation gives a series: the measurement, then _key=value for
\* the keys in ascending order
NameOf(measurement, tagset) ==
  LET keys == SortStrs({p[1] : p \in tagset})
  IN <<measurement>>
       \o Concat([i \in 1..Len(keys) |->
                    <<"_", keys[i], "=", (CHOOSE p \in tagset : p[1] = keys[i])[2]>>])

EntryName(q) == NameOf(Val(DictGet(q, "measurement")), TagSet(q))

\* for every value column of the returned table, the entry it came from and the name
\* the series gave it
Owners ==
  Concat([i \in 1..Len(fetched) |->
            IF IsEmpty(fetched[i]) THEN <<>>
            ELSE LET cs == NonTimeCols(fetched[i])
                 IN [j \in 1..Len(cs) |-> [entry |-> i, col |-> cs[j]]]])

ValueCols(df) == {j \in 1..Len(df.cols) : df.cols[j] # TimeCol}
\* the position among the value columns of column j
ValueIndex(df, j) == Cardinality({k \in ValueCols(df) : k <= j})

\* the values a fetched series has in a column at a time
ValuesAt(df, c, t) ==
  {df.rows[r][ColIndex(df, c)] : r \in {x \in 1..Len(df.rows) : df.rows[x][ColIndex(df, TimeCol)] = t}}

\* C9: the times of the merged table are the union of the times of the fetched
\* series, and a series' column holds NaN at every time the series has no value for
\* (and one of the series' values at a time it has).
C9_OuterJoin ==
  Merged =>
    /\ TimesOf(result.df) = UNION {TimesOf(fetched[i]) : i \in 1..Len(fetched)}
    /\ HasCol(result.df, TimeCol) =>
         /\ Len(Owners) = Cardinality(ValueCols(result.df))
         /\ \A r \in 1..Len(result.df.rows), j \in ValueCols(result.df) :
              LET own == Owners[ValueIndex(result.df, j)]
                  t == result.df.rows[r][ColIndex(result.df, TimeCol)]
                  cell == result.df.rows[r][j]
              IN IF t \in TimesOf(fetched[own.entry])
                 THEN cell \in ValuesAt(fetched[own.entry], own.col, t)
                 ELSE cell = NaN

\* two series with different times were merged and a gap was filled
C9_Witness ==
  /\ Merged
  /\ Len(fetched) = 2
  /\ TimesOf(fetched[1]) # {} /\ TimesOf(fetched[2]) # {}
  /\ TimesOf(fetched[1]) # TimesOf(fetched[2])
  /\ Cardinality(TimesOf(result.df)) = 2
  /\ \E r \in 1..Len(result.df.rows) : NaN \in Range(result.df.rows[r])

\* C10: the name of a series depends on the measurement and on the set of tag pairs
\* only: every value column of the merged table starts with the name made from the
\* tags in ascending key order, whatever the order they were given in.
C10_NameIgnoresTagOrder ==
  (Merged /\ HasCol(result.df, TimeCol)) =>
    \A j \in ValueCols(result.df) :
      LET own == Owners[ValueIndex(result.df, j)]
      IN StartsWith(result.df.cols[j],
                    EntryName(args.queries[own.entry]) \o <<"_">> \o own.col)

\* the tags given as b, a: the column is power_a=1_b=2_value
C10_Witness ==
  /\ Merged
  /\ Len(args.queries) = 1
  /\ DictHas(args.queries[1], "tags")
  /\ DictGet(args.queries[1], "tags") = Some(TagsBA)
  /\ <<"power", "_", "a", "=", "1", "_", "b", "=", "2", "_", "value">>
       \in Range(result.df.cols)

\* s without its i-th element
RemoveAt(s, i) == SubSeq(s, 1, i - 1) \o SubSeq(s, i + 1, Len(s))

\* the table the same request gives without its i-th entry
MergedWithout(i) ==
  GmtLoop(version, bucket, RemoveAt(args.queries, i), args.defaults, RemoveAt(driver, i),
          GmtStart).merged

\* the fields entry q asks for, as column names
EntryCols(q) == {Col(f) : f \in Range(FieldsList(Val(EntryFields(q)).items))}

\* C3: an entry whose fetch gives no rows still has its column in the merged table,
\* NaN in every row, and the table has the rows it has without that entry.
C3_EmptySeriesColumn ==
  Merged =>
    \A i \in 1..Len(fetched) :
      IsEmpty(fetched[i]) =>
        /\ \A c \in EntryCols(args.queries[i]) :
             \E j \in 1..Len(result.df.cols) :
               /\ StartsWith(result.df.cols[j], EntryName(args.queries[i]) \o <<"_">> \o c)
               /\ \A r \in 1..Len(result.df.rows) : result.df.rows[r][j] = NaN
        /\ Len(result.df.rows) = Len(MergedWithout(i).rows)

\* ------------------------------------------------------------------ merge requests
MultiCall == op = "get_multiple_timeseries"

\* the entry has a value for the key: the key is there and does not carry None
HasValue(q, k) == DictHas(q, k) /\ ~IsNone(DictGet(q, k))

\* the entry's own value, and the call-level default when it has none
Resolved(q, k, default) == IF HasValue(q, k) THEN DictGet(q, k) ELSE default

NoMeasurement(q) == ~HasValue(q, "measurement") \/ Val(DictGet(q, "measurement")) = ""
NoRange(q) ==
  \/ IsNone(Resolved(q, "start", args.defaults.start))
  \/ IsNone(Resolved(q, "end", args.defaults.end))
RangeMsg == <<"start and end are required for get_multiple_timeseries">>

\* the first entry of the request that names no measurement or has no time range
FirstInvalid(i) ==
  /\ NoMeasurement(args.queries[i]) \/ NoRange(args.queries[i])
  /\ \A j \in 1..(i - 1) : ~(NoMeasurement(args.queries[j]) \/ NoRange(args.queries[j]))

\* C11: an entry without a measurement name, or without start or end after the
\* call-level values were tried, makes the call raise the validation error; neither
\* that entry nor a later one is fetched and no table is returned.
C11_FailFast ==
  MultiCall =>
    \A i \in 1..Len(args.queries) :
      FirstInvalid(i) =>
        /\ outcome.kind # "returned"
        /\ result = NoResult
        /\ Len(asked) < i /\ Len(calls) < i /\ Len(fetched) < i
        /\ (Len(fetched) = i - 1 /\ outcome.kind # "KeyError") =>
             outcome = Raise("ValueError",
                             IF NoMeasurement(args.queries[i])
                             THEN <<"measurement is required in each query">>
                             ELSE RangeMsg)

\* the second entry is the invalid one: the first was fetched, the second was not
C11_Witness ==
  /\ MultiCall
  /\ Len(args.queries) = 2
  /\ FirstInvalid(2)
  /\ Len(fetched) = 1 /\ Len(calls) = 1
  /\ outcome.kind = "ValueError"

\* C12: get_timeseries receives, for start, end, interval and aggregation, the
\* entry's own value when it has one and the call-level value when the key is absent
\* or carries None; the range error is raised only when neither supplies start or end.
C12_EntryOrDefault ==
  MultiCall =>
    /\ \A i \in 1..Len(asked) :
         LET q == args.queries[i]
         IN /\ asked[i].start = Val(Resolved(q, "start", args.defaults.start))
            /\ asked[i].end = Val(Resolved(q, "end", args.defaults.end))
            /\ asked[i].interval = Resolved(q, "interval", args.defaults.interval)
            /\ asked[i].aggregation = Resolved(q, "aggregation", args.defaults.aggregation)
    /\ (outcome = Raise("ValueError", RangeMsg)) =>
         \E i \in 1..Len(args.queries) : NoRange(args.queries[i])

\* the names a value column of the merged table may carry: the series name and the
\* fetched column, told apart by _x / _y when two series share them
ColumnNames(own) ==
  LET base == EntryName(args.queries[own.entry]) \o <<"_">> \o own.col
  IN {base, base \o <<"_x">>, base \o <<"_y">>}

\* C13: a call that returns has called get_timeseries once per entry, in the order
\* of the list, each call with one backend query (a repeated entry is fetched again),
\* and the value columns of the table follow the order of their entries.
C13_OncePerEntryInOrder ==
  Merged =>
    /\ Len(asked) = Len(args.queries)
    /\ Len(fetched) = Len(args.queries)
    /\ Len(calls) = Len(args.queries)
    /\ \A i \in 1..Len(asked) :
         /\ asked[i].measurement = Val(DictGet(args.queries[i], "measurement"))
         /\ Range(asked[i].tags) = TagSet(args.queries[i])
    /\ HasCol(result.df, TimeCol) =>
         /\ Len(Owners) = Cardinality(ValueCols(result.df))
         /\ \A j \in ValueCols(result.df) :
              result.df.cols[j] \in ColumnNames(Owners[ValueIndex(result.df, j)])

\* the same entry twice: two fetches, two backend queries, two value columns
C13_Witness ==
  /\ Merged
  /\ Len(args.queries) = 2
  /\ args.queries[1] = args.queries[2]
  /\ Len(calls) = 2 /\ Len(asked) = 2
  /\ Cardinality(ValueCols(result.df)) = 2

\* ------------------------------------------------------------------ single fetches
\* the columns of the table the backend answered with
AnswerCols ==
  IF version = 1 THEN driver[1].data.cols
  ELSE IF driver[1].data.shape = "other" THEN <<>>
  ELSE ConcatFrames(driver[1].data.frames).cols

\* the backend's table has a column for the time of a row
AnswerHasTime ==
  TimeCol \in Range(AnswerCols) \/ (version = 2 /\ Col("_time") \in Range(AnswerCols))

GotTable == op = "get_timeseries" /\ outcome.kind = "returned" /\ ~IsEmpty(result.df)

\* C14 as stated: whatever columns the backend returned, the first column of a
\* non-empty table returned by get_timeseries is named time.
C14_TimeFirst == GotTable => result.df.cols[1] = TimeCol

\* C14, amended: when the backend's table has a time column, time is the first column
\* of the returned table; when it has none, the returned table has no time column.
C14_TimeFirstWhenPresent ==
  GotTable =>
    /\ AnswerHasTime => result.df.cols[1] = TimeCol
    /\ ~AnswerHasTime => ~HasCol(result.df, TimeCol)

\* the backend gave the time column after a value column and it was moved to the front
C14_Witness ==
  /\ GotTable
  /\ version = 1
  /\ AnswerCols[1] = Col("value") /\ AnswerHasTime
  /\ result.df.cols[1] = TimeCol

\* C15: get_timeseries with a field list without a non-empty name raises the
\* validation error and makes no backend call.
C15_FieldsRequired ==
  (op = "get_timeseries" /\ \A i \in 1..Len(args.fields) : args.fields[i] = "")
    => (outcome.kind = "ValueError" /\ calls = <<>> /\ driver = <<>>)

\* a list holding only the empty name, on a v2 client that has its bucket
C15_Witness ==
  /\ op = "get_timeseries"
  /\ version = 2 /\ bucket # ""
  /\ args.fields = <<"">>
  /\ outcome = Raise("ValueError", <<"fields must contain at least one field name">>)

\* the letter c is the capital K or its small form
SameLetter(c, K) ==
  c = K \/ \E i \in 1..Len(UpperCase) : UpperCase[i] = K /\ LowerCase[i] = c

\* the text starts, after its leading whitespace, with one of the InfluxQL keywords
\* in any letter case
KeywordFirst(q) ==
  \E n \in 0..Len(q), w \in InfluxQLKeywords :
    /\ \A i \in 1..n : q[i] \in Whitespace
    /\ Len(q) >= n + Len(w)
    /\ \A i \in 1..Len(w) : SameLetter(q[n + i], w[i])

\* C16: the v2 query_raw sends a text to the compatibility endpoint exactly when it
\* starts with an InfluxQL keyword, every other text to the Flux query API, and never
\* uses both.
C16_DialectRouting ==
  (op = "query_raw" /\ version = 2) =>
    /\ Len(calls) <= 1
    /\ \A i \in 1..Len(calls) :
         calls[i].api = IF KeywordFirst(args.query) THEN "requests.get"
                        ELSE "query_api.query_data_frame"
    /\ (bucket # "" \/ ~KeywordFirst(args.query)) => Len(calls) = 1

\* a keyword in small letters after a blank went to the compatibility endpoint
C16_Witness ==
  /\ op = "query_raw" /\ version = 2
  /\ args.query = <<" ", "s", "h", "o", "w", " ", "m">>
  /\ Len(calls) = 1 /\ calls[1].api = "requests.get"

\* ------------------------------------------------------------------ the pivot
\* get_timeseries of the v2 client got one long-format frame from the backend and
\* returned the table _normalize_flux_dataframe made of it with the pivot enabled
Pivoted ==
  /\ op = "get_timeseries" /\ version = 2 /\ outcome.kind = "returned"
  /\ Len(driver) = 1 /\ driver[1].r = "ok"
  /\ driver[1].data.shape = "frame"
  /\ driver[1].data.frames[1].cols = LongCols
  /\ Len(driver[1].data.frames[1].rows) > 0

LongRows == driver[1].data.frames[1].rows

\* the rows of the backend's frame for a time and a field, and those with a value
PairRows(t, f) == SelectSeq(LongRows, LAMBDA row : row[1] = t /\ row[2] = f)
ValuedRows(t, f) == SelectSeq(PairRows(t, f), LAMBDA row : row[3] # NaN)

\* the wall clock the returned table shows for a UTC time of the backend
Shown(t) == (ConvertCell(t, args.timezone)).wall

ResultRowsAt(t) ==
  {r \in 1..Len(result.df.rows) : result.df.rows[r][1].wall = Shown(t)}

\* C20 as stated: one row per distinct _time, one value column per distinct _field,
\* and the cell of a (time, field) pair holds the value of the first row of the pair.
C20_PivotFirstRow ==
  Pivoted =>
    /\ Len(result.df.rows) = Cardinality({row[1] : row \in Range(LongRows)})
    /\ {result.df.cols[j] : j \in 2..Len(result.df.cols)}
         = {Col(row[2].s) : row \in Range(LongRows)}
    /\ Len(result.df.cols) = 1 + Cardinality({row[2] : row \in Range(LongRows)})
    /\ \A row \in Range(LongRows) :
         \A r \in ResultRowsAt(row[1]) :
           result.df.rows[r][ColIndex(result.df, Col(row[2].s))]
             = PairRows(row[1], row[2])[1][3]

\* C20, amended: one row per distinct _time that has a non-null value, one value
\* column per distinct _field that has a non-null value; the cell of a (time, field)
\* pair holds the first non-null value of the pair in input order (never an average
\* or the last one), and NaN when the pair has no non-null value.
C20_PivotFirstValue ==
  Pivoted =>
    LET valued == SelectSeq(LongRows, LAMBDA row : row[3] # NaN)
        times == {row[1] : row \in Range(valued)}
        flds == {row[2] : row \in Range(valued)}
    IN /\ Len(result.df.rows) = Cardinality(times)
       /\ result.df.cols[1] = TimeCol
       /\ {result.df.cols[j] : j \in 2..Len(result.df.cols)} = {Col(f.s) : f \in flds}
       /\ Len(result.df.cols) = 1 + Cardinality(flds)
       /\ \A t \in times :
            /\ Cardinality(ResultRowsAt(t)) = 1
            /\ \A f \in flds, r \in ResultRowsAt(t) :
                 result.df.rows[r][ColIndex(result.df, Col(f.s))]
                   = IF Len(ValuedRows(t, f)) = 0 THEN NaN ELSE ValuedRows(t, f)[1][3]

\* a (time, field) pair was there twice with different values and the first one
\* is in the table
C20_Witness ==
  /\ Pivoted
  /\ LongRows = <<<<Time(10, "UTC"), Str("humidity"), Num(2)>>,
                  <<Time(10, "UTC"), Str("humidity"), Num(1)>>>>
  /\ result.df.rows = <<<<ConvertCell(Time(10, "UTC"), args.timezone), Num(2)>>>>

\* ------------------------------------------------------------------ the connection flag
\* the connect() call that has just ended found its ping failing
PingFailed == op = "connect" /\ ~PingOk(args.has_ping, driver)

\* C19: connect() raises the connection error and leaves connected false whenever
\* ping() fails; connected is true only if the last of the connect() / close() calls
\* was a connect() whose ping succeeded, and it is false after every close() and after
\* every failed connect().
C19_ConnectedFlag ==
  /\ PingFailed => outcome.kind = "InfluxDBConnectionError" /\ ~connected
  /\ connected => lifecycle = "connect returned"
  /\ lifecycle \in {"close returned", "close raised", "connect raised"} => ~connected

\* ------------------------------------------------------------------ the factory
\* get_client was called without a version, on a config mapping
Detecting == op = "get_client" /\ IsNone(args.version) /\ ~IsNone(args.config)

BuiltClient(v) == outcome = Returned /\ result.kind = "client" /\ result.version = v
FactoryError(msg) == outcome = Raise("ValueError", msg) /\ result = NoResult

\* C17: get_client without a version goes by the keys the config gives (a key counts
\* as given when it carries a value other than None and ""): keys of url, token, org
\* only give a v2 client, keys of host, database, username, user, password, pwd only
\* give a v1 client, keys of both sets fail with the ambiguous-configuration error,
\* keys of neither set fail with the cannot-infer error, and no client is made in
\* these two cases.
C17_DetectByKeys ==
  Detecting =>
    LET config == Val(args.config)
        v2 == AnyGiven(config, V2Keys)
        v1 == AnyGiven(config, V1Keys)
    IN /\ (v2 /\ ~v1) => BuiltClient(2)
       /\ (v1 /\ ~v2) => BuiltClient(1)
       /\ (v1 /\ v2) => FactoryError(<<"Ambiguous config">>)
       /\ (~v1 /\ ~v2) => FactoryError(<<"Could not infer InfluxDB version from config">>)

\* ------------------------------------------------------------------ the profiles
FromProfile == made_from.by = "profile"

\* C18: whatever the profile and the environment, INFLUXDB_ALLOW_WRITE included, the
\* config resolve_profile returns has allow_write false, and every write, delete and
\* admin call on the client the factory builds from it ends in UnsafeOperationError
\* with nothing sent to the backend.
C18_ProfilesReadOnly ==
  /\ (op = "resolve_profile" /\ outcome = Returned)
       => Get(result.config, "allow_write", None) = Some(Flag(FALSE))
  /\ FromProfile
       => /\ ~allow_write
          /\ op \in WriteAdminOps
               => outcome.kind = "UnsafeOperationError" /\ calls = <<>> /\ store = <<>>

\* a v2 profile resolved while INFLUXDB_ALLOW_WRITE is "true": the write is refused
C18_Witness ==
  /\ FromProfile
  /\ made_from.env_writes
  /\ version = 2
  /\ op = "write_points"
  /\ Len(args.points) > 0
  /\ outcome.kind = "UnsafeOperationError"

\* ------------------------------------------------------------------ the chunks sent
\* the points of the backend write calls, in the order the calls were made
SentPoints == Concat([i \in 1..Len(calls) |-> calls[i].record])

\* the caller's list as write_points leaves it: the measurement filled in, in place
GivenPoints == SetMeasurement(args.points, args.measurement)

\* C30: for a batch size k > 0 the chunks sent to the backend, put together in the
\* order they were sent, are the list of points given (all of it when the call
\* returns, its beginning when a write raised), and no chunk sent is empty.
C30_ChunksKeepAll ==
  (op = "write_points" /\ ~IsNone(args.batch_size) /\ Val(args.batch_size) > 0)
    => /\ \A i \in 1..Len(calls) : Len(calls[i].record) > 0
       /\ Len(SentPoints) <= Len(GivenPoints)
       /\ SentPoints = SubSeq(GivenPoints, 1, Len(SentPoints))
       /\ outcome = Returned => SentPoints = GivenPoints

\* five points written two at a time: three chunks, the last of one point
C30_Witness ==
  /\ op = "write_points"
  /\ outcome = Returned
  /\ args.batch_size = Some(2)
  /\ Len(args.points) = 5
  /\ Len(calls) = 3
  /\ Len(calls[3].record) = 1

\* ------------------------------------------------------------------ no retries
\* the driver raised on the last call it received
DriverRaised == Len(driver) > 0 /\ driver[Len(driver)].r = "raise"

Raised == outcome.kind \notin {"returned", "none"}

\* C22: get_timeseries and query_raw make at most one backend query; write_points
\* sends chunk number i as its i-th backend call and nothing else, so no chunk goes
\* out twice; and when the driver raises, the call raises with no backend call after
\* the one that failed.
C22_NoRetry ==
  /\ op \in {"get_timeseries", "query_raw"}
       => /\ Len(calls) <= 1
          /\ DriverRaised => Raised /\ Len(calls) = 1
  /\ (op = "write_points" /\ Len(calls) > 0)
       => /\ Len(calls) <= Len(_chunk_points(GivenPoints, args.batch_size))
          /\ \A i \in 1..Len(calls) :
               calls[i].record = _chunk_points(GivenPoints, args.batch_size)[i]
          /\ DriverRaised => Raised /\ Len(calls) = Len(driver)

\* the second of three chunks fails: the call raises after two backend calls
C22_Witness ==
  /\ op = "write_points"
  /\ Len(calls) = 2
  /\ Len(_chunk_points(GivenPoints, args.batch_size)) = 3
  /\ DriverRaised
  /\ Raised

\* ------------------------------------------------------------------ ping and the driver
\* the driver's ping was called and reported the server unreachable
DriverUnreachable ==
  op \in {"ping", "connect"} /\ args.has_ping /\ driver[1].r \in {"raise", "false"}

\* C27: whenever the driver's ping reports the server unreachable, by raising or by
\* returning a false result, ping() returns false, and connect() raises the
\* connection error and leaves connected false.
C27_PingFollowsDriver ==
  DriverUnreachable
    => /\ op = "ping" => result = BoolResult(FALSE)
       /\ op = "connect" => outcome.kind = "InfluxDBConnectionError" /\ ~connected

\* ------------------------------------------------------------------ the with block
\* the block was entered: connect() returned and the body ran
BlockEntered == op = "with" /\ PingOk(args.has_ping, driver)

\* C23: a with block calls connect() once on entry and, however its body ends,
\* close() exactly once on exit; the body's exception leaves the block, a body that
\* returns leaves it without one, and connected is false after the block.
C23_BlockClosesOnce ==
  BlockEntered
    => /\ asked = <<"connect", "close">>
       /\ args.body = "raises" => outcome = Raise("BodyError", <<"body">>)
       /\ args.body = "returns" => outcome = Returned
       /\ ~connected

\* ------------------------------------------------------------------ the write switch
\* config.py _get_bool: the strings that stand for true
TrueWords == {"1", "true", "yes", "y", "on"}

\* the mapping's allow_write is a true value
AsksForWrites(config) ==
  /\ DictHas(config, "allow_write")
  /\ DictGet(config, "allow_write") \in {Some(Flag(TRUE))} \cup {Some(Str(w)) : w \in TrueWords}

\* C26: a client the factory builds from a config mapping has writes enabled only when
\* the mapping's allow_write is boolean true or one of the strings 1, true, yes, y, on;
\* without allow_write, or with "false" or "0", the client is read-only (and so, by
\* the write guard, refuses every write call with UnsafeOperationError).
C26_WritesOnlyWhenTrue ==
  (op = "get_client" /\ outcome = Returned /\ made_from.by = "factory")
    => (allow_write => AsksForWrites(Val(args.config)))

\* ------------------------------------------------------------------ column names
\* C29: every value column of an entry whose fetch gave rows (with their time column)
\* is in the returned table under the name <series name>_<column>, also when two
\* entries have the same series name.
C29_ColumnsKeepNames ==
  Merged =>
    \A k \in 1..Len(Owners) :
      HasCol(fetched[Owners[k].entry], TimeCol)
        => EntryName(args.queries[Owners[k].entry]) \o <<"_">> \o Owners[k].col
             \in Range(result.df.cols)

\* ------------------------------------------------------------------ the query texts
Built == op = "build_query"

HasClause(text, keyword) == \E i \in 1..Len(text) : text[i][1] = keyword

\* C21: the InfluxQL text has its GROUP BY time(interval) clause, and the Flux text its
\* aggregateWindow stage, exactly when both an aggregation and an interval are given
\* (None and "" count as not given).
C21_GroupByNeedsBoth ==
  Built =>
    /\ HasClause(result.influxql, "GROUP BY time")
         <=> (Given(args.aggregation) /\ Given(args.interval))
    /\ HasClause(result.flux, "aggregateWindow")
         <=> (Given(args.aggregation) /\ Given(args.interval))

\* both given: both texts group; and the interval alone is in neither text
C21_Witness ==
  /\ Built
  /\ args.aggregation = Some("mean")
  /\ args.interval = Some("5m")
  /\ <<"GROUP BY time", "5m">> \in Range(result.influxql)
  /\ <<"aggregateWindow", "5m", "mean", "createEmpty: false">> \in Range(result.flux)

\* the InfluxQL text applies a function to the fields it selects
InfluxQLAggregates(text) == \E i \in 1..Len(text[1][2]) : Len(text[1][2][i]) = 2

\* the Flux text applies a function to the values it reads
FluxAggregates(text) == HasClause(text, "aggregateWindow")

\* C28: for a request with an aggregation and no interval, the two builders agree on
\* whether the aggregation is applied: both texts apply it or both select raw values.
C28_BuildersAgree ==
  (Built /\ Given(args.aggregation) /\ ~Given(args.interval))
    => (InfluxQLAggregates(result.influxql) <=> FluxAggregates(result.flux))

\* ------------------------------------------------------------------ the injected client
\* the decorator made a client and handed it to the wrapped function
ClientInjected ==
  /\ op \in {"wrapped", "delete_measurement"}
  /\ Len(calls) > 0
  /\ driver[1].r = "ok"

\* C24: the client the _database decorator makes is closed after the wrapped function
\* ends, when it returns and when it raises.
C24_InjectedClientClosed ==
  ClientInjected => calls[Len(calls)].api = "close"

\* ------------------------------------------------------------------ the confirmed delete
Deleted == \E i \in 1..Len(calls) : calls[i].api = "delete_api.delete"

\* the inputs that are "yes" once stripped and lower-cased
YesInputs == {<<"Y", "e", "s">>, <<"y", "e", "s">>, <<" ", "Y", "E", "S", "\n">>}

\* C25: delete_measurement calls the delete API only after the count query was
\* answered and the input, stripped and lower-cased, is "yes"; for every other input
\* there is no delete call, and the function returns once the count is made.
C25_DeleteNeedsYes ==
  op = "delete_measurement"
    => /\ Deleted
            => /\ args.confirm \in YesInputs
               /\ \E i \in 1..Len(calls) :
                    /\ calls[i].api = "query_api.query"
                    /\ driver[i].r = "ok"
                    /\ calls[i + 1].api = "delete_api.delete"
       /\ args.confirm \notin YesInputs
            => /\ ~Deleted
               /\ (ClientInjected /\ ~DriverRaised) => outcome = Returned

\* " YES" with its newline confirms: the delete follows the count
C25_Witness ==
  /\ op = "delete_measurement"
  /\ args.confirm = <<" ", "Y", "E", "S", "\n">>
  /\ Deleted
  /\ outcome = Returned

====
